---------------------------- MODULE Spec2Model ----------------------------
(***************************************************************************)
(* Data-access core of go-modular: the user repository (optimistic lock   *)
(* on a version column), the ambient-transaction coordinator and the      *)
(* error taxonomy.                                                        *)
(*                                                                        *)
(* The database is PostgreSQL reached through database/sql + lib/pq.      *)
(* Every SQL statement is one atomic step.  A statement issued on the     *)
(* pooled connection auto-commits; a statement issued on a transaction    *)
(* writes into that transaction's write set, which becomes visible at     *)
(* Commit (READ COMMITTED, the default of BeginTxx(ctx, nil)).  A writing *)
(* statement waits while another open transaction holds an uncommitted    *)
(* write on the same primary key.  Statements are assumed not to fail for *)
(* infrastructure reasons (lost connection); Begin, Commit and Rollback   *)
(* may fail.                                                              *)
(***************************************************************************)
EXTENDS Integers, Sequences, FiniteSets, TLC

\* ---------------------------------------------------------------- bounds
NumUnits == 2
MaxOps == 4
MaxVersion == 3
\* repository calls the fn bodies of a run issue, all units together
MaxFnOps == 2
\* calls of BeginTxx, Commit and Rollback that fail in a run
MaxFaults == 1

Units == 1..NumUnits
Ids == {"u1", "u2"}
RepoIds == {"u1"}
Versions == 0..MaxVersion
\* entity.Version as callers hand it to Create: the zero value, NewUser's 1, another.
CreateVersions == {0, 1, 2}

\* ---------------------------------------------------------------- values
NoTx == 0

\* A stored row of table users (id is the key of the table function).
NoRow == [present |-> FALSE, version |-> 0, first_name |-> 0]
MkRow(v, n) == [present |-> TRUE, version |-> v, first_name |-> n]

\* userModel.User as the repository sees it: id, version, one business field.
NoEnt == [id |-> "", version |-> 0, first_name |-> 0]
MkEnt(i, v, n) == [id |-> i, version |-> v, first_name |-> n]

\* ---------------------------------------------------------------- errors
\* An error value is the chain errors.Unwrap walks, outermost layer first.
Nil == <<>>
\* A layer has a type, the Op/Table/Code/Message of a DatabaseError (or the
\* message of another error), and note: the text an Errorf layer shows of an
\* operand it formats with %v, which Unwrap does not reach.
Layer(t, o, tb, c, m) == [type |-> t, op |-> o, table |-> tb, code |-> c, msg |-> m, note |-> ""]
Sentinel(m) == <<Layer("sentinel", "", "", "", m)>>

ErrNotFound == Sentinel("entity not found")
ErrDuplicateKey == Sentinel("duplicate key violation")
ErrForeignKeyViolation == Sentinel("foreign key constraint violation")
ErrOptimisticLock == Sentinel("optimistic locking conflict")
ErrConnectionFailed == Sentinel("database connection failed")
ErrTransactionFailed == Sentinel("transaction failed")
ErrInvalidInput == Sentinel("invalid input")
SqlErrNoRows == Sentinel("sql: no rows in result set")
\* context.Canceled, the ctx.Err() of a cancelled carrier, and sql.ErrTxDone.
CtxCanceled == Sentinel("context canceled")
ErrTxDone == Sentinel("sql: transaction has already been committed or rolled back")

\* A *pq.Error with SQLSTATE code c and Detail d.
PqError(c, d) == <<Layer("pq", "", "", c, d)>>

\* A driver error of database/sql (BeginTxx, Commit, Rollback).
DriverError(m) == <<Layer("driver", "", "", "", m)>>

\* Error(): the text of the outermost layer stands for the whole message.
Text(err) == IF err = Nil THEN "" ELSE err[1].msg

\* fmt.Errorf(msg + ": %w", wrapped), with shown the text of a %v operand.
Errorf(m, shown, wrapped) == <<[Layer("fmt", "", "", "", m) EXCEPT !.note = shown]>> \o wrapped

\* errors.Is(err, target): unwrapping err reaches target.
\* (DatabaseError.Is and DatabaseError.Unwrap both delegate to the wrapped Err.)
ErrorsIs(err, target) ==
  target # Nil /\ \E i \in DOMAIN err : SubSeq(err, i, Len(err)) = target

\* Mutant: the cause is left out of the DatabaseError.
NewDatabaseError_NoCause(op, tb, err) == <<Layer("DatabaseError", op, tb, "", "")>>

NewDatabaseError(op, tb, err) == <<Layer("DatabaseError", op, tb, "", "")>> \o err
NewDatabaseErrorWithCode(op, tb, c, m, err) == <<Layer("DatabaseError", op, tb, c, m)>> \o err

IsNotFoundError(err) == ErrorsIs(err, ErrNotFound)
IsDuplicateKeyError(err) == ErrorsIs(err, ErrDuplicateKey)
IsOptimisticLockError(err) == ErrorsIs(err, ErrOptimisticLock)
IsTransactionError(err) == ErrorsIs(err, ErrTransactionFailed)

\* handleError of the user repository.
handleError(operation, err) ==
  IF err = Nil THEN Nil
  ELSE IF err[1].type = "pq" /\ err[1].code = "23505"
    THEN IF err[1].msg = "email"
           THEN NewDatabaseErrorWithCode(operation, "users", "23505", "email already exists", ErrDuplicateKey)
           ELSE NewDatabaseErrorWithCode(operation, "users", "23505", "duplicate key violation", ErrDuplicateKey)
  ELSE IF err[1].type = "pq" /\ err[1].code = "23503"
    THEN NewDatabaseErrorWithCode(operation, "users", "23503", "foreign key constraint violation", ErrForeignKeyViolation)
  ELSE IF err[1].type = "pq" /\ err[1].code = "23514"
    THEN NewDatabaseErrorWithCode(operation, "users", "23514", "check constraint violation", ErrInvalidInput)
  ELSE IF err = SqlErrNoRows THEN ErrNotFound
  ELSE NewDatabaseError(operation, "users", err)


\* ---------------------------------------------------------------- state
VARIABLES
  table,      \* committed rows of users: [Ids -> row]
  txs,        \* [TxIds -> transaction record]: the *sqlx.Tx handles
  txWrites,   \* [TxIds -> [Ids -> row]]: uncommitted writes of a transaction
  carrier,    \* [Units -> TxId or NoTx]: value under TxKey{} in the unit's ctx
  frames,     \* [Units -> Seq(frame)]: ExecuteInTransaction calls in progress
  ent,        \* [Units -> entity]: the *userModel.User the caller holds
  pend,       \* [Units -> entity]: Update between its UPDATE and its Exists probe
  call,       \* [Units -> record]: the unit's latest Update call and its return
  last,       \* the repository call of the latest step: who, what, what it returned
  nops,       \* repository calls issued so far, by all units
  fnErr,      \* [Units -> error]: the latest failure the running fn was handed
  panicking,  \* [Units -> panic value or ""]: a panic unwinding the unit's stack
  outcome,    \* [Units -> record]: how the unit's outermost ExecuteInTransaction ended
  entClean,   \* history: no foreign write since the unit observed ent
  cancelled,  \* [Units -> BOOLEAN]: the unit's carrier (its ctx) has been cancelled
  faults,     \* driver failures of BeginTxx, Commit and Rollback so far
  effects,    \* history: [Units -> set of writes fn bodies made through the carrier]
  innerFailed, \* history: [Units -> a nested ExecuteInTransaction returned a failure]
  trIn,       \* the latest call of the translator: [op, err]
  trOut,      \* what that call returned
  mig,        \* the schema_migrations row: [version, dirty], NilVersion for no row
  ran,        \* history: the scripts the latest migration call executed, in order
  source,     \* the versions whose script pairs the migration source holds
  mlast,      \* the latest migration call: [op, arg, err], the row it found and
              \* the arguments of the Steps calls it made on the runner
  mprev,      \* history: the call before the latest, if it was a call of Steps
  dir,        \* the entries of the migrations directory
  mgr,        \* the latest call of ListMigrations, ValidateMigrations or GetStatus
  boot,       \* how far Main has come
  wfc,        \* a call of WaitForConnection: its place, counters and result
  qb,         \* the query builder: its query and args
  qlast,      \* the last call on the builder, the builder before it, what it returned
  users,      \* the rows of users that Count and List read
  pg,         \* a caller paging through List and then calling Count
  otx,        \* calls of ExecuteInTransactionWithOptions: their frames, the transactions begun, the last statement
  cdir,       \* the files of the migrations directory by name, as CreateMigration finds and leaves them
  cm          \* the latest call of CreateMigration and what it returned

vars == <<table, txs, txWrites, carrier, frames, ent, pend, call, last, nops,
          fnErr, panicking, outcome, entClean, cancelled, faults, effects, innerFailed,
          trIn, trOut, mig, ran, source, mlast, mprev,
          dir, mgr, boot, wfc, qb, qlast,
          users, pg,
          otx,
          cdir, cm>>

MaxDepth == 2
TxIds == 1..(NumUnits * MaxDepth)
\* The handle BeginTxx hands to unit u for its call at nesting depth d.
TxOf(u, d) == (u - 1) * MaxDepth + d

Untouched == [present |-> FALSE, version |-> 0 - 1, first_name |-> 0]
\* A transaction handle: status is "none" (not begun), "open", "failed" (a
\* statement failed: the server rejects all but ROLLBACK), "committed",
\* "rolledback", "cancelled" (database/sql rolled it back when the ctx it was
\* begun with was cancelled) or "lost" (Commit or Rollback returned an error: the handle is
\* done and the server discards the transaction).  commits and rollbacks count
\* the calls of tx.Commit and tx.Rollback, beganAt and resolvedAt are the
\* nesting depths of the calls that began and resolved it.
NoTxRec == [status |-> "none", commits |-> 0, rollbacks |-> 0,
            beganAt |-> 0, resolvedAt |-> 0]

\* How an outermost ExecuteInTransaction ended: state "returned" with err (fn
\* is what fn itself returned, via the path taken) or "panicked" with value.
NoOutcome == [state |-> "none", err |-> Nil, fn |-> Nil, via |-> "", value |-> ""]

\* An Update call: the id and version of its argument, phase ("probe" while it
\* awaits its Exists probe, else "done"), the error returned, and two history
\* bits: whether only calls submitting the same version have written the row
\* since the caller observed it (clean), and whether the conditional UPDATE saw
\* a row (rowAtExec).
NoCall == [id |-> "", ver |-> 0, phase |-> "none", err |-> Nil,
           clean |-> FALSE, rowAtExec |-> FALSE]

\* The call of the latest step: unit, the connection its statement ran on (a
\* transaction, or NoTx for the pool), operation, id and version of its
\* argument (for Count and List: the number of rows read), phase as above, the
\* error returned.
NoLast == [unit |-> 0, conn |-> NoTx, op |-> "", id |-> "", ver |-> 0, phase |-> "none", err |-> Nil]
Returned(u, c, op, id, ver, err) ==
  [unit |-> u, conn |-> c, op |-> op, id |-> id, ver |-> ver, phase |-> "done", err |-> err]

Live(t) == txs[t].status \in {"open", "failed"}

\* ---------------------------------------------------------------- database
\* Mutant: the carrier's token is never found.
GetTxFromContext_Nil(u) == NoTx

\* GetTxFromContext: the *sqlx.Tx stored under TxKey{}, or nil.
GetTxFromContext(u) == carrier[u]

\* What a statement on connection c (a transaction, or NoTx for the pool) reads.
Visible(c, id) ==
  IF c # NoTx /\ txWrites[c][id] # Untouched THEN txWrites[c][id] ELSE table[id]

\* Another open transaction holds an uncommitted write on the key.
HeldByOther(c, id) == \E t \in TxIds : t # c /\ Live(t) /\ txWrites[t][id] # Untouched

\* A statement on an aborted transaction fails with SQLSTATE 25P02.
Aborted(c) == c # NoTx /\ txs[c].status = "failed"
PqAborted == PqError("25P02", "")

\* The effect of a statement of connection c that stores row r under id.
Store(c, id, r) ==
  IF c = NoTx
    THEN /\ table' = [table EXCEPT ![id] = r]
         /\ UNCHANGED txWrites
    ELSE /\ txWrites' = [txWrites EXCEPT ![c][id] = r]
         /\ UNCHANGED table

\* A failing statement aborts the transaction it ran on.
Fail(c) ==
  IF c = NoTx THEN UNCHANGED txs
  ELSE txs' = [txs EXCEPT ![c].status = "failed"]

\* Mutant: the trigger adds one to the version the statement set.
update_updated_at_column_AddsToNew(old, new) == [new EXCEPT !.version = new.version + 1]

\* BEFORE UPDATE trigger update_updated_at_column: NEW.version = OLD.version + 1.
update_updated_at_column(old, new) == [new EXCEPT !.version = old.version + 1]

\* The row the INSERT of Create stores for an entity: version is bound from it.
InsertRow(entity) == MkRow(entity.version, entity.first_name)

\* Mutant: the WHERE clause without its version test.
UpdateMatches_IdOnly(old, entity) == old.present

\* Mutant: the WHERE clause tests version = :version.
UpdateMatches_SameVersion(old, entity) == old.present /\ old.version = entity.version

\* WHERE id = :id AND version = :version - 1
UpdateMatches(old, entity) == old.present /\ old.version = entity.version - 1

\* SET ..., version = :version, then the trigger.
UpdateRow(old, entity) == update_updated_at_column(old, MkRow(entity.version, entity.first_name))

\* ---------------------------------------------------------------- history
\* A successful write by unit x on id: kind is "create", "delete" or "update"
\* (then ver is the submitted version).  Observations of other units stay clean
\* only under an Update that submits just what they would submit.
EntCleanAfter(x, id, kind, ver) ==
  [u \in Units |->
     IF u = x \/ ent[u].id # id THEN entClean[u]
     ELSE entClean[u] /\ kind = "update" /\ ver = ent[u].version + 1]

CallAfter(x, id, kind, ver) ==
  [u \in Units |->
     IF call[u].phase = "none" \/ call[u].id # id THEN call[u]
     ELSE [call[u] EXCEPT !.clean = @ /\ kind = "update" /\ ver = call[u].ver]]

\* ---------------------------------------------------------------- repository
\* The unit may issue a repository call: it is not inside an Update, and the
\* run has calls left.
CanCall(u) ==
  /\ pend[u] = NoEnt
  /\ nops < MaxOps
  /\ panicking[u] = ""
  /\ outcome[u].state = "none"

\* Variables of the pure functions, which no repository or transaction step touches.
migVars == <<mig, ran, source, mlast, mprev>>
dirVars == <<dir, mgr>>
bootVars == <<boot>>
waitVars == <<wfc>>
queryVars == <<qb, qlast>>
listVars == <<users, pg>>
optVars == <<otx>>
createVars == <<cdir, cm>>
pureVars == <<trIn, trOut, migVars, dirVars, bootVars, waitVars, queryVars,
             listVars,
             optVars,
             createVars>>

coordVars == <<carrier, frames, panicking, outcome, cancelled, faults, innerFailed, pureVars>>

\* Inside a fn body the failure a call returns is the one fn may pass on, and
\* a write it made is an effect of the call at the current nesting depth.
Note(u, err, wrote) ==
  /\ fnErr' = IF frames[u] # <<>> /\ err # Nil THEN [fnErr EXCEPT ![u] = err] ELSE fnErr
  /\ effects' = IF frames[u] # <<>> /\ wrote # ""
                  THEN [effects EXCEPT ![u] = @ \cup {[id |-> wrote, depth |-> Len(frames[u]),
                                                       tx |-> GetTxFromContext(u)]}]
                  ELSE effects

\* UserRepository.Create(ctx, entity) with entity = (id, v, first_name = u).
Create(u, id, v) ==
  LET c == GetTxFromContext(u)
      entity == MkEnt(id, v, u)
      native == IF Aborted(c) THEN PqAborted
                ELSE IF Visible(c, id).present THEN PqError("23505", "id")
                ELSE Nil
      err == handleError("Create", native)
  IN /\ CanCall(u)
     /\ ~HeldByOther(c, id)
     /\ IF native = Nil
          THEN /\ Store(c, id, InsertRow(entity))
               /\ UNCHANGED txs
               /\ ent' = [ent EXCEPT ![u] = entity]
               /\ entClean' = [EntCleanAfter(u, id, "create", v) EXCEPT ![u] = TRUE]
          ELSE /\ Fail(c)
               /\ UNCHANGED <<table, txWrites, ent, entClean>>
     /\ call' = IF native = Nil THEN CallAfter(u, id, "create", v) ELSE call
     /\ last' = Returned(u, c, "Create", id, v, err)
     /\ Note(u, err, IF native = Nil THEN id ELSE "")
     /\ nops' = nops + 1
     /\ UNCHANGED <<pend, coordVars>>

\* The error of UserRepository.GetByID(ctx, id) on connection c.
GetByIDError(c, id) ==
  handleError("GetByID", IF Aborted(c) THEN PqAborted
                         ELSE IF ~Visible(c, id).present THEN ErrNotFound
                         ELSE Nil)

\* UserRepository.GetByID(ctx, id): BaseRepository.GetByID turns sql.ErrNoRows
\* into ErrNotFound, which handleError then wraps.  The caller then sets the
\* business field of the entity it got to its own value.
GetByID(u, id) ==
  LET c == GetTxFromContext(u)
      row == Visible(c, id)
      err == GetByIDError(c, id)
  IN /\ CanCall(u)
     /\ IF err = Nil
          THEN /\ ent' = [ent EXCEPT ![u] = MkEnt(id, row.version, u)]
               /\ entClean' = [entClean EXCEPT ![u] = ~HeldByOther(c, id)]
          ELSE UNCHANGED <<ent, entClean>>
     /\ last' = Returned(u, c, "GetByID", id, 0, err)
     /\ Note(u, err, "")
     /\ nops' = nops + 1
     /\ UNCHANGED <<table, txs, txWrites, pend, call, coordVars>>

\* Mutant: zero rows affected is no error.
checkRowsAffected_Ignores(rowsAffected) == Nil

\* BaseRepository.checkRowsAffected: ErrNotFound for zero rows.
checkRowsAffected(rowsAffected) == IF rowsAffected = 0 THEN ErrNotFound ELSE Nil

\* UserRepository.Delete(ctx, id): the DELETE, then checkRowsAffected, then
\* handleError.
Delete(u, id) ==
  LET c == GetTxFromContext(u)
      row == Visible(c, id)
      rowsAffected == IF row.present THEN 1 ELSE 0
      base == IF Aborted(c) THEN PqAborted ELSE checkRowsAffected(rowsAffected)
      err == handleError("Delete", base)
      deleted == ~Aborted(c) /\ rowsAffected = 1
  IN /\ CanCall(u)
     /\ ~(table[id].present /\ HeldByOther(c, id))
     /\ IF deleted
          THEN /\ Store(c, id, NoRow)
               /\ UNCHANGED txs
               /\ entClean' = EntCleanAfter(u, id, "delete", 0)
          ELSE /\ IF Aborted(c) THEN Fail(c) ELSE UNCHANGED txs
               /\ UNCHANGED <<table, txWrites, entClean>>
     /\ call' = IF deleted THEN CallAfter(u, id, "delete", 0) ELSE call
     /\ last' = Returned(u, c, "Delete", id, 0, err)
     /\ Note(u, err, IF deleted THEN id ELSE "")
     /\ nops' = nops + 1
     /\ UNCHANGED <<ent, pend, coordVars>>

\* UserRepository.Update(ctx, entity), first round trip: the conditional
\* UPDATE and the inspection of RowsAffected.  The caller has advanced the
\* version of the entity it holds by one.
UpdateExec(u) ==
  LET c == GetTxFromContext(u)
      entity == [ent[u] EXCEPT !.version = @ + 1]
      id == entity.id
      old == Visible(c, id)
      rowsAffected == IF UpdateMatches(old, entity) THEN 1 ELSE 0
      started == [id |-> id, ver |-> entity.version, phase |-> "done", err |-> Nil,
                  clean |-> entClean[u], rowAtExec |-> old.present]
      failed == handleError("Update", PqAborted)
  IN /\ CanCall(u)
     /\ ent[u] # NoEnt
     /\ entity.version <= MaxVersion
     /\ ~(table[id].present /\ HeldByOther(c, id))
     /\ nops' = nops + 1
     /\ UNCHANGED coordVars
     /\ IF Aborted(c)
          THEN /\ call' = [call EXCEPT ![u] = [started EXCEPT !.err = failed]]
               /\ last' = Returned(u, c, "Update", id, entity.version, failed)
               /\ Note(u, failed, "")
               /\ ent' = [ent EXCEPT ![u] = NoEnt]
               /\ UNCHANGED <<table, txs, txWrites, pend, entClean>>
        ELSE IF rowsAffected = 0
          THEN /\ pend' = [pend EXCEPT ![u] = entity]
               /\ call' = [call EXCEPT ![u] = [started EXCEPT !.phase = "probe"]]
               /\ last' = [Returned(u, c, "Update", id, entity.version, Nil) EXCEPT !.phase = "probe"]
               /\ UNCHANGED <<fnErr, effects>>
               /\ UNCHANGED <<table, txs, txWrites, ent, entClean>>
          ELSE /\ Store(c, id, UpdateRow(old, entity))
               /\ ent' = [ent EXCEPT ![u] = entity]
               /\ entClean' = [EntCleanAfter(u, id, "update", entity.version) EXCEPT ![u] = TRUE]
               /\ call' = [CallAfter(u, id, "update", entity.version) EXCEPT ![u] = started]
               /\ last' = Returned(u, c, "Update", id, entity.version, Nil)
               /\ Note(u, Nil, id)
               /\ UNCHANGED <<txs, pend>>

\* UserRepository.Exists(ctx, id) as Update calls it: the error it returns has
\* been through handleError("Exists", ...) already.
Exists(c, id) ==
  IF Aborted(c) THEN [exists |-> FALSE, err |-> handleError("Exists", PqAborted)]
  ELSE [exists |-> Visible(c, id).present, err |-> Nil]

\* Mutant: the two verdicts of the probe exchanged.
UpdateVerdict_Flipped(probe) ==
  IF probe.err # Nil THEN handleError("Update", probe.err)
  ELSE IF ~probe.exists THEN ErrOptimisticLock
  ELSE ErrNotFound

\* What Update returns once RowsAffected was 0 and the probe answered.
UpdateVerdict(probe) ==
  IF probe.err # Nil THEN handleError("Update", probe.err)
  ELSE IF ~probe.exists THEN ErrNotFound
  ELSE ErrOptimisticLock

\* Mutant: the probe always goes to the pool.
ProbeConn_Pool(u) == NoTx

\* u.Exists(ctx, entity.ID) inside Update: Exists looks the transaction up in
\* the ctx Update was given.
ProbeConn(u) == GetTxFromContext(u)

\* UserRepository.Update, second round trip: rowsAffected == 0, so Exists was
\* called and answered with probe.
ProbeReturn(u, probe) ==
  LET c == ProbeConn(u)
      entity == pend[u]
      err == UpdateVerdict(probe)
  IN /\ pend[u] # NoEnt
     /\ panicking[u] = ""
     /\ Note(u, err, "")
     /\ pend' = [pend EXCEPT ![u] = NoEnt]
     /\ ent' = [ent EXCEPT ![u] = NoEnt]
     /\ call' = [call EXCEPT ![u] = [@ EXCEPT !.phase = "done", !.err = err]]
     /\ last' = Returned(u, c, "Update", entity.id, entity.version, err)
     /\ UNCHANGED <<table, txs, txWrites, nops, entClean, coordVars>>

UpdateProbe(u) ==
  /\ pend[u] # NoEnt
  /\ ProbeReturn(u, Exists(ProbeConn(u), pend[u].id))

\* The same round trip when the statement of Exists fails in the driver: the
\* connection was lost after the UPDATE.
UpdateProbeFails(u) ==
  /\ pend[u] # NoEnt
  /\ ProbeReturn(u, [exists |-> FALSE,
                     err |-> handleError("Exists", DriverError("driver: bad connection"))])

\* UserRepository.Count(ctx, filter) and UserRepository.List(ctx, filter, limit,
\* offset) with an empty filter: the rows the statement's connection shows.
RowsRead(c) == Cardinality({id \in Ids : Visible(c, id).present})

Count(u) ==
  LET c == GetTxFromContext(u)
      err == IF Aborted(c) THEN handleError("Count", PqAborted) ELSE Nil
  IN /\ CanCall(u)
     /\ last' = Returned(u, c, "Count", "", IF err = Nil THEN RowsRead(c) ELSE 0, err)
     /\ Note(u, err, "")
     /\ nops' = nops + 1
     /\ UNCHANGED <<table, txs, txWrites, ent, entClean, pend, call, coordVars>>

List(u) ==
  LET c == GetTxFromContext(u)
      err == IF Aborted(c) THEN handleError("List", PqAborted) ELSE Nil
  IN /\ CanCall(u)
     /\ last' = Returned(u, c, "List", "", IF err = Nil THEN RowsRead(c) ELSE 0, err)
     /\ Note(u, err, "")
     /\ nops' = nops + 1
     /\ UNCHANGED <<table, txs, txWrites, ent, entClean, pend, call, coordVars>>

\* ---------------------------------------------------------------- coordinator
Depth(u) == Len(frames[u])

\* A call of ExecuteInTransaction in progress: the transaction it began (NoTx
\* when it found a token and began none) and the token of the carrier it got.
Frame(owner, saved) == [owner |-> owner, saved |-> saved]

\* What a fn body may panic with.
PanicValues == {"boom"}

\* An error fn makes up itself.
AppErr == <<Layer("app", "", "", "", "fn failed")>>

\* What the running fn may return: nil, its own error, the failure it was
\* handed, and ctx.Err() once its carrier is cancelled.
FnResults(u) == {Nil, AppErr, fnErr[u]} \cup (IF cancelled[u] THEN {CtxCanceled} ELSE {})

\* Mutant: the check for an ambient transaction always answers no.
HoldsToken_Never(u) == FALSE

\* if GetTxFromContext(ctx) != nil
HoldsToken(u) == GetTxFromContext(u) # NoTx

\* tx.Commit() and tx.Rollback() called at nesting depth d; ok is whether the
\* call succeeds.  Either way the handle is done afterwards.
Commit(rec, ok, d) ==
  [rec EXCEPT !.status = IF @ = "cancelled" THEN @ ELSE IF ok THEN "committed" ELSE "lost",
              !.commits = @ + 1, !.resolvedAt = d]
Rollback(rec, ok, d) ==
  [rec EXCEPT !.status = IF @ = "cancelled" THEN @ ELSE IF ok THEN "rolledback" ELSE "lost",
              !.rollbacks = @ + 1, !.resolvedAt = d]

\* What database/sql decides about tx.Commit() or tx.Rollback() (how) of unit u
\* before the driver is asked: a handle that is done gives ErrTxDone, and Commit
\* with the ctx of BeginTxx cancelled gives ctx.Err().  Nil: the driver is asked.
TxCallRefused(u, t, how) ==
  IF txs[t].status = "cancelled" THEN ErrTxDone
  ELSE IF how = "commit" /\ cancelled[u] THEN CtxCanceled
  ELSE Nil

\* Mutant: the writes of nested calls are left out of the commit.
Published_OuterOnly(t) ==
  [id \in Ids |->
     IF /\ txWrites[t][id] # Untouched
        /\ ~\E u \in Units : \E e \in effects[u] : e.tx = t /\ e.id = id /\ e.depth >= 2
       THEN txWrites[t][id] ELSE table[id]]

\* The table once transaction t has committed.
Published(t) ==
  [id \in Ids |-> IF txWrites[t][id] # Untouched THEN txWrites[t][id] ELSE table[id]]

\* return fmt.Errorf("failed to begin transaction: %w", err)
ErrorOnBegin(err) == Errorf("failed to begin transaction", "", err)

\* Mutant: commit whatever fn returned.
Resolution_AlwaysCommit(fnResult) == "commit"

\* if err := fn(txCtx); err != nil { tx.Rollback() ... } ; tx.Commit()
Resolution(fnResult) == IF fnResult # Nil THEN "rollback" ELSE "commit"

\* Mutant: the rollback failure is wrapped and fn's error only shown.
ErrorOnRollback_WrapsRollbackErr(rollbackErr, err) ==
  IF rollbackErr # Nil
    THEN Errorf("failed to rollback transaction", Text(err), rollbackErr)
    ELSE err

\* What the call returns after fn returned err and tx.Rollback() returned rollbackErr.
ErrorOnRollback(rollbackErr, err) ==
  IF rollbackErr # Nil
    THEN Errorf("failed to rollback transaction", Text(rollbackErr), err)
    ELSE err

\* What the call returns after fn returned nil and tx.Commit() returned commitErr.
ErrorOnCommit(commitErr) ==
  IF commitErr # Nil THEN Errorf("failed to commit transaction", "", commitErr) ELSE Nil

\* Mutant: the deferred function panics again without rolling back.
Recovered_Nothing(rec, ok, d) == rec

\* The deferred function after recover() gave a panic value: tx.Rollback().
Recovered(rec, ok, d) == Rollback(rec, ok, d)

\* Mutant: the deferred function panics with a value of its own.
Repanic_Other(r) == "rollback after panic"

\* panic(r) // Re-panic
Repanic(r) == r

repoVars == <<ent, pend, call, last, nops, entClean, cancelled, pureVars>>

\* The call whose frame was just popped hands err to its caller: to the
\* enclosing fn if there is one (rest are the frames left), else to the unit.
Deliver(u, rest, err, fnResult, via) ==
  IF rest = <<>>
    THEN /\ outcome' = [outcome EXCEPT ![u] = [state |-> "returned", err |-> err,
                                               fn |-> fnResult, via |-> via, value |-> ""]]
         /\ UNCHANGED <<fnErr, innerFailed>>
    ELSE /\ fnErr' = IF err # Nil THEN [fnErr EXCEPT ![u] = err] ELSE fnErr
         /\ innerFailed' = [innerFailed EXCEPT ![u] = @ \/ err # Nil]
         /\ UNCHANGED outcome

\* Mutant: the token is kept where every unit's carrier finds it.
WithTransaction_Shared(cr, u, t) == [v \in Units |-> t]

\* txCtx := context.WithValue(ctx, TxKey{}, tx): the carriers cr with the token
\* put into a child of unit u's carrier, which only u's fn is given.
WithTransaction(cr, u, t) == [cr EXCEPT ![u] = t]

CanEnter(u) ==
  /\ pend[u] = NoEnt
  /\ panicking[u] = ""
  /\ outcome[u].state = "none"
  /\ Depth(u) < MaxDepth

\* ExecuteInTransaction / ExecuteInTransactionWithOptions up to the call of fn:
\* with a token in the carrier fn gets the carrier as it is, else a transaction
\* is begun and fn gets a child carrier holding it.  The two functions differ
\* only in the options they hand to BeginTxx (nil, or opts); the transactions
\* here all run READ COMMITTED, so one action stands for both.
ExecEnter(u) ==
  /\ CanEnter(u)
  /\ IF HoldsToken(u)
       THEN /\ frames' = [frames EXCEPT ![u] = Append(@, Frame(NoTx, carrier[u]))]
            /\ UNCHANGED <<txs, carrier>>
       ELSE LET t == TxOf(u, Depth(u) + 1)
            IN /\ txs[t].status = "none"
               /\ txs' = [txs EXCEPT ![t] = [NoTxRec EXCEPT !.status = "open",
                                                             !.beganAt = Depth(u) + 1]]
               /\ frames' = [frames EXCEPT ![u] = Append(@, Frame(t, carrier[u]))]
               /\ carrier' = WithTransaction(carrier, u, t)
  /\ UNCHANGED <<table, txWrites, repoVars, fnErr, panicking, outcome, faults, effects, innerFailed>>

\* The same with BeginTxx failing: fn is not called.
ExecBeginFails(u) ==
  /\ CanEnter(u)
  /\ ~HoldsToken(u)
  /\ faults < MaxFaults
  /\ faults' = faults + 1
  /\ Deliver(u, frames[u], ErrorOnBegin(DriverError("begin")), Nil, "begin-failed")
  /\ UNCHANGED <<table, txs, txWrites, carrier, frames, repoVars, panicking, effects>>

\* fn of a call that began no transaction returns e: return fn(ctx).
NestedReturn(u, e) ==
  LET top == frames[u][Depth(u)]
      rest == SubSeq(frames[u], 1, Depth(u) - 1)
  IN /\ frames[u] # <<>>
     /\ pend[u] = NoEnt
     /\ panicking[u] = ""
     /\ top.owner = NoTx
     /\ frames' = [frames EXCEPT ![u] = rest]
     /\ carrier' = [carrier EXCEPT ![u] = top.saved]
     /\ Deliver(u, rest, e, e, "nested")
     /\ UNCHANGED <<table, txs, txWrites, repoVars, panicking, faults, effects>>

\* fn of the call that began the transaction returns e: roll back or commit
\* (ok: whether that call succeeds; Commit on an aborted transaction always
\* fails, lib/pq rolls back and returns ErrInFailedTransaction).
ExecLeave(u, e, ok) ==
  LET top == frames[u][Depth(u)]
      rest == SubSeq(frames[u], 1, Depth(u) - 1)
      t == top.owner
      how == Resolution(e)
      refused == TxCallRefused(u, t, how)
      txErr == IF refused # Nil THEN refused ELSE IF ok THEN Nil ELSE DriverError(how)
      err == IF e # Nil THEN ErrorOnRollback(txErr, e) ELSE ErrorOnCommit(txErr)
      via == how \o (IF ok THEN "-ok" ELSE "-failed")
      forced == refused # Nil \/ (how = "commit" /\ txs[t].status = "failed")
  IN /\ frames[u] # <<>>
     /\ pend[u] = NoEnt
     /\ panicking[u] = ""
     /\ top.owner # NoTx
     /\ IF ok THEN ~forced ELSE forced \/ faults < MaxFaults
     /\ faults' = IF ok \/ forced THEN faults ELSE faults + 1
     /\ txs' = [txs EXCEPT ![t] = IF how = "commit" THEN Commit(@, ok, Depth(u))
                                  ELSE Rollback(@, ok, Depth(u))]
     /\ table' = IF how = "commit" /\ ok THEN Published(t) ELSE table
     /\ frames' = [frames EXCEPT ![u] = rest]
     /\ carrier' = [carrier EXCEPT ![u] = top.saved]
     /\ Deliver(u, rest, err, e, via)
     /\ UNCHANGED <<txWrites, repoVars, panicking, effects>>

\* The carrier of unit u is cancelled while its fn runs, between two calls.
CtxCancel(u) ==
  /\ frames[u] # <<>>
  /\ pend[u] = NoEnt
  /\ panicking[u] = ""
  /\ ~cancelled[u]
  /\ cancelled' = [cancelled EXCEPT ![u] = TRUE]
  /\ UNCHANGED <<table, txs, txWrites, carrier, frames, ent, pend, call, last, nops, fnErr,
                 panicking, outcome, entClean, faults, effects, innerFailed, pureVars>>

\* database/sql's watcher of the ctx given to BeginTxx rolls the transaction
\* back once that ctx is done, whenever it gets to run.
AwaitDone(u, t) ==
  /\ cancelled[u]
  /\ \E d \in 1..Depth(u) : frames[u][d].owner = t
  /\ Live(t)
  /\ txs' = [txs EXCEPT ![t].status = "cancelled"]
  /\ UNCHANGED <<table, txWrites, carrier, frames, repoVars, fnErr, panicking, outcome,
                 faults, effects, innerFailed>>

\* A fn body panics.
FnPanic(u, p) ==
  /\ frames[u] # <<>>
  /\ pend[u] = NoEnt
  /\ panicking[u] = ""
  /\ panicking' = [panicking EXCEPT ![u] = p]
  /\ UNCHANGED <<table, txs, txWrites, carrier, frames, repoVars, fnErr, outcome,
                 faults, effects, innerFailed>>

\* The panic leaves one call of ExecuteInTransaction: the call that began the
\* transaction recovers, rolls back (a failure is printed) and panics again;
\* a call that began none has no deferred function.
ExecUnwind(u, ok) ==
  LET top == frames[u][Depth(u)]
      rest == SubSeq(frames[u], 1, Depth(u) - 1)
      value == IF top.owner = NoTx THEN panicking[u] ELSE Repanic(panicking[u])
  IN /\ panicking[u] # ""
     /\ frames[u] # <<>>
     /\ IF ok THEN TRUE ELSE top.owner # NoTx /\ faults < MaxFaults
     /\ faults' = IF ok THEN faults ELSE faults + 1
     /\ txs' = IF top.owner = NoTx THEN txs
               ELSE [txs EXCEPT ![top.owner] = Recovered(@, ok, Depth(u))]
     /\ frames' = [frames EXCEPT ![u] = rest]
     /\ carrier' = [carrier EXCEPT ![u] = top.saved]
     /\ IF rest = <<>>
          THEN /\ outcome' = [outcome EXCEPT ![u] = [NoOutcome EXCEPT !.state = "panicked",
                                                     !.via = "panic", !.value = value]]
               /\ panicking' = [panicking EXCEPT ![u] = ""]
          ELSE /\ panicking' = [panicking EXCEPT ![u] = value]
               /\ UNCHANGED outcome
     /\ UNCHANGED <<table, txWrites, repoVars, fnErr, effects, innerFailed>>

\* ---------------------------------------------------------------- translator
\* The operation names the repository hands to handleError.
Operations == {"Create", "GetByID", "Update", "Delete", "List", "Count", "Exists"}

\* Errors that reach handleError: *pq.Error values, sql.ErrNoRows, the
\* ErrNotFound BaseRepository has already made of no rows or of zero rows
\* affected, driver and context errors, other sentinels, and errors that wrap
\* one of these.
NativeErrors ==
  { PqError("23505", "email"), PqError("23505", "id"), PqError("23503", "role"),
    PqError("23514", "status"), PqError("25P02", ""), PqError("57014", ""),
    SqlErrNoRows, ErrNotFound, ErrConnectionFailed, ErrOptimisticLock, CtxCanceled,
    DriverError("bad connection"),
    Errorf("scan", "", SqlErrNoRows), Errorf("exec", "", PqError("23505", "id")),
    Errorf("lookup", "", ErrNotFound) }

\* A call handleError(operation, err).
Translate(operation, err) ==
  /\ trIn' = [op |-> operation, err |-> err]
  /\ trOut' = handleError(operation, err)
  /\ UNCHANGED <<table, txs, txWrites, carrier, frames, ent, pend, call, last, nops, fnErr,
                 panicking, outcome, entClean, cancelled, faults, effects, innerFailed,
                 migVars, dirVars, bootVars, waitVars, queryVars,
                 listVars,
                 optVars,
                 createVars>>

\* ---------------------------------------------------------------- migrations
\* The migration source holds script pairs of versions among 1..MaxMigration,
\* with or without gaps.
MaxMigration == 3
MaxSteps == 2
Sources == (SUBSET (1..MaxMigration)) \ {{}}
Migrations == source

\* The i-th version of S in ascending and in descending order.
NthUp(S, i) == CHOOSE x \in S : Cardinality({y \in S : y <= x}) = i
NthDown(S, i) == CHOOSE x \in S : Cardinality({y \in S : y >= x}) = i

\* database.NilVersion: no migration applied; the limit of Up and Down.
NilVersion == -1
NoLimit == -1

ErrNoChange == Sentinel("no change")
ErrNotExist == Sentinel("file does not exist")
ErrShortLimit == Sentinel("limit short")
ErrInvalidVersion == Sentinel("version must be >= -1")
ErrDirty == Sentinel("Dirty database version. Fix and force version.")
ScriptError == DriverError("migration failed")

NoMig == [version |-> NilVersion, dirty |-> FALSE]
NoMigCall == [op |-> "", arg |-> 0, err |-> Nil, from |-> NoMig, steps |-> <<>>]
NoPrevCall == [steps |-> FALSE, arg |-> 0, ok |-> FALSE, from |-> NoMig, ranOk |-> FALSE]

\* The postgres driver's SetVersion(version, dirty): the row is replaced, and
\* no row is written for a clean NilVersion. rewriteNil: the driver writes a
\* row for a dirty NilVersion (later releases of the driver do, earlier do not).
SetVersion(version, dirty, rewriteNil) ==
  IF version >= 0 \/ (version = NilVersion /\ dirty /\ rewriteNil)
    THEN [version |-> version, dirty |-> dirty]
    ELSE NoMig

\* Migrate.Version as MigrationRunner.Version returns it: ErrNilVersion is not
\* a failure, and leaves the zero values (0, false).
Version(m) ==
  IF m.version = NilVersion THEN [version |-> 0, dirty |-> FALSE]
  ELSE [version |-> m.version, dirty |-> m.dirty]

Min(a, b) == IF a < b THEN a ELSE b

\* The migrations Migrate.readUp hands to runMigrations from version from, and
\* the error that ends them: the next limit versions of the source above from.
readUp(from, limit) ==
  LET ups == {x \in Migrations : x > from}
      avail == Cardinality(ups)
      k == IF limit = NoLimit THEN avail ELSE Min(limit, avail)
  IN IF from >= 0 /\ from \notin Migrations THEN [migs |-> <<>>, err |-> ErrNotExist]
     ELSE IF limit = 0 THEN [migs |-> <<>>, err |-> ErrNoChange]
     ELSE [migs |-> [i \in 1..k |-> [version |-> NthUp(ups, i), target |-> NthUp(ups, i),
                                     dir |-> "up"]],
           err |-> IF limit = NoLimit THEN (IF avail = 0 THEN ErrNoChange ELSE Nil)
                   ELSE IF avail = 0 THEN ErrNotExist
                   ELSE IF k < limit THEN ErrShortLimit
                   ELSE Nil]

\* Mutant: each reverse migration records the version below its target.
readDown_TargetOffByOne(from, limit) ==
  LET downs == {x \in Migrations : x <= from}
      avail == Cardinality(downs)
      k == IF limit = NoLimit THEN avail ELSE Min(limit, avail)
  IN IF from >= 0 /\ from \notin Migrations THEN [migs |-> <<>>, err |-> ErrNotExist]
     ELSE IF limit = 0 THEN [migs |-> <<>>, err |-> ErrNoChange]
     ELSE IF from = NilVersion
       THEN [migs |-> <<>>, err |-> IF limit = NoLimit THEN ErrNoChange ELSE ErrNotExist]
     ELSE [migs |-> [i \in 1..k |-> [version |-> NthDown(downs, i),
                                     target |-> IF i + 2 > avail THEN NilVersion
                                                ELSE NthDown(downs, i + 2),
                                     dir |-> "down"]],
           err |-> IF limit # NoLimit /\ k < limit THEN ErrShortLimit ELSE Nil]

\* The migrations Migrate.readDown hands to runMigrations: the versions of the
\* source from from downward, each with the version before it as its target;
\* the first version goes down to NilVersion.
readDown(from, limit) ==
  LET downs == {x \in Migrations : x <= from}
      avail == Cardinality(downs)
      k == IF limit = NoLimit THEN avail ELSE Min(limit, avail)
  IN IF from >= 0 /\ from \notin Migrations THEN [migs |-> <<>>, err |-> ErrNotExist]
     ELSE IF limit = 0 THEN [migs |-> <<>>, err |-> ErrNoChange]
     ELSE IF from = NilVersion
       THEN [migs |-> <<>>, err |-> IF limit = NoLimit THEN ErrNoChange ELSE ErrNotExist]
     ELSE [migs |-> [i \in 1..k |-> [version |-> NthDown(downs, i),
                                     target |-> IF i + 1 > avail THEN NilVersion
                                                ELSE NthDown(downs, i + 1),
                                     dir |-> "down"]],
           err |-> IF limit # NoLimit /\ k < limit THEN ErrShortLimit ELSE Nil]

\* Migrate.runMigrations: each migration sets (target, dirty), runs its
\* script, and sets (target, clean); the script numbered failAt fails, which
\* ends the run. The result is the row, the scripts executed and the error.
runMigrations(m, plan, failAt, rewriteNil) ==
  LET n == Len(plan.migs)
  IN IF failAt \in 1..n
       THEN [state |-> SetVersion(plan.migs[failAt].target, TRUE, rewriteNil),
             ran |-> [i \in 1..failAt |-> [version |-> plan.migs[i].version,
                                          dir |-> plan.migs[i].dir, ok |-> i < failAt]],
             err |-> ScriptError]
       ELSE [state |-> IF n = 0 THEN m ELSE SetVersion(plan.migs[n].target, FALSE, rewriteNil),
             ran |-> [i \in 1..n |-> [version |-> plan.migs[i].version,
                                     dir |-> plan.migs[i].dir, ok |-> TRUE]],
             err |-> plan.err]

\* Mutant: a dirty row does not stop a run.
Refused_Never(m) == FALSE

\* Up, Down and Steps of Migrate read the row first and give ErrDirty for a
\* dirty one.
Refused(m) == m.dirty

Refusal(m) == [state |-> m, ran |-> <<>>, err |-> ErrDirty]
NoRun(m, err) == [state |-> m, ran |-> <<>>, err |-> err]

\* What a method of MigrationRunner returns of the error of Migrate.
RunnerError(msg, err) ==
  IF err # Nil /\ err # ErrNoChange THEN Errorf(msg, "", err) ELSE Nil

\* The call op(arg) has ended with result res of Migrate, after the calls
\* Steps(n) on the runner for the n of steps.
MigrationCall(op, arg, msg, res, steps) ==
  /\ mig' = res.state
  /\ ran' = res.ran
  /\ source' = source
  /\ mlast' = [op |-> op, arg |-> arg, err |-> RunnerError(msg, res.err), from |-> mig,
               steps |-> steps]
  /\ mprev' = IF mlast.op \in {"Steps", "MigrateSteps"}
                THEN [steps |-> TRUE, arg |-> mlast.arg, ok |-> mlast.err = Nil,
                      from |-> mlast.from, ranOk |-> \A i \in DOMAIN ran : ran[i].ok]
                ELSE NoPrevCall
  /\ UNCHANGED <<table, txs, txWrites, carrier, frames, ent, pend, call, last, nops, fnErr,
                 panicking, outcome, entClean, cancelled, faults, effects, innerFailed,
                 trIn, trOut, dirVars, bootVars, waitVars, queryVars,
                 listVars,
                 optVars,
                 createVars>>

\* The ways a run can go: which script fails, if any, and what the driver
\* stores for a dirty NilVersion.
Fates == (0..MaxMigration) \X BOOLEAN

\* MigrationRunner.Up, called as op.
Up(op) ==
  \E res \in { IF Refused(mig) THEN Refusal(mig)
               ELSE runMigrations(mig, readUp(mig.version, NoLimit), f[1], f[2]) : f \in Fates } :
    MigrationCall(op, 0, "failed to run migrations up", res, <<>>)

\* MigrationRunner.Down, called as op.
Down(op) ==
  \E res \in { IF Refused(mig) THEN Refusal(mig)
               ELSE runMigrations(mig, readDown(mig.version, NoLimit), f[1], f[2]) : f \in Fates } :
    MigrationCall(op, 0, "failed to run migrations down", res, <<>>)

\* Migrate.Steps(n) on row m.
StepsResult(m, n, failAt, rewriteNil) ==
  IF n = 0 THEN NoRun(m, ErrNoChange)
  ELSE IF Refused(m) THEN Refusal(m)
  ELSE runMigrations(m, IF n > 0 THEN readUp(m.version, n) ELSE readDown(m.version, -n),
                     failAt, rewriteNil)

\* MigrationRunner.Steps(n), called as op.
Steps(op, n) ==
  \E res \in { StepsResult(mig, n, f[1], f[2]) : f \in Fates } :
    MigrationCall(op, n, "failed to run migration steps", res, <<n>>)

\* Mutant: the version is overwritten and the dirty flag is kept.
Force_KeepsDirty(op, version) ==
  MigrationCall(op, version, "failed to force migration version",
                IF version < NilVersion THEN NoRun(mig, ErrInvalidVersion)
                ELSE [state |-> SetVersion(version, mig.dirty, TRUE), ran |-> <<>>, err |-> Nil],
                <<>>)

\* MigrationRunner.Force(version), called as op: the row is overwritten and no
\* script runs.
Force(op, version) ==
  MigrationCall(op, version, "failed to force migration version",
                IF version < NilVersion THEN NoRun(mig, ErrInvalidVersion)
                ELSE [state |-> SetVersion(version, FALSE, TRUE), ran |-> <<>>, err |-> Nil],
                <<>>)

\* The methods of MigrationManager.
MigrateUp == Up("MigrateUp")
MigrateDown == Down("MigrateDown")
MigrateSteps(n) == Steps("MigrateSteps", n)
ManagerForce(version) == Force("Manager.Force", version)

\* MigrationManager.MigrateTo(targetVersion): the signed distance from the
\* version Version reports, handed to Steps.
MigrateTo(targetVersion) ==
  LET currentVersion == Version(mig).version
  IN \E res \in { IF targetVersion = currentVersion THEN NoRun(mig, Nil)
                  ELSE StepsResult(mig, targetVersion - currentVersion, f[1], f[2]) : f \in Fates } :
       MigrationCall("MigrateTo", targetVersion, "failed to run migration steps", res,
                     IF targetVersion = currentVersion THEN <<>>
                     ELSE <<targetVersion - currentVersion>>)

\* ---------------------------------------------------------------- directory
\* Versions of the files in the migrations directory.
MaxFileVersion == 3
FileVersions == 1..MaxFileVersion

\* A script is the sequence of its lines, a line the sequence of its
\* characters: a space, a dash or another character.
MaxLineLen == 3
MaxLines == 2
Chars == {" ", "-", "x"}
SeqsUpTo(S, n) == UNION {[1..k -> S] : k \in 0..n}
Lines == SeqsUpTo(Chars, MaxLineLen)
Scripts == SeqsUpTo(Lines, MaxLines)
SqlScript == << <<"-", "-", "x">>, <<"x", "x">> >>
NoteScript == << <<"-", "-", "x">>, <<>> >>

\* strings.TrimSpace(line).
RECURSIVE TrimLeft(_)
TrimLeft(line) == IF line # <<>> /\ Head(line) = " " THEN TrimLeft(Tail(line)) ELSE line
RECURSIVE TrimRight(_)
TrimRight(line) ==
  IF line # <<>> /\ line[Len(line)] = " " THEN TrimRight(SubSeq(line, 1, Len(line) - 1))
  ELSE line
TrimSpace(line) == TrimRight(TrimLeft(line))

\* strings.HasPrefix(line, prefix).
HasPrefix(line, prefix) ==
  Len(line) >= Len(prefix) /\ SubSeq(line, 1, Len(prefix)) = prefix

\* Mutant: the lines are tested as they are, untrimmed.
containsSQL_Untrimmed(content) ==
  \E i \in DOMAIN content : ~(content[i] = <<>> \/ HasPrefix(content[i], <<"-", "-">>))

\* containsSQL(content): some line is, once trimmed, neither empty nor a
\* "--" comment.
containsSQL(content) ==
  \E i \in DOMAIN content :
    LET trimmed == TrimSpace(content[i])
    IN ~(trimmed = <<>> \/ HasPrefix(trimmed, <<"-", "-">>))

\* A directory entry, by what ListMigrations looks at in its name: whether it
\* is a directory, whether the name ends in ".sql", the number of parts "_"
\* splits it in, whether the first part parses as an unsigned number and as
\* which, and whether the name ends in ".up.sql" or ".down.sql"; and the lines
\* of the file.
File(version, kind, lines) ==
  [isDir |-> FALSE, sql |-> TRUE, parts |-> 2, number |-> TRUE, version |-> version,
   kind |-> kind, lines |-> lines]

\* Entries that are no migration script: a directory "002_x.up.sql", a file
\* "002_x.up.txt", a file "002.up.sql", a file "v2_x.up.sql" and a file
\* "002_x.sql".
OddEntries ==
  { [File(2, "up", SqlScript) EXCEPT !.isDir = TRUE],
    [File(2, "txt", SqlScript) EXCEPT !.sql = FALSE],
    [File(2, "up", SqlScript) EXCEPT !.parts = 1],
    [File(2, "up", SqlScript) EXCEPT !.number = FALSE],
    File(2, "sql", SqlScript) }

\* The directories with at most one up and one down script for a version,
\* each with SQL or with notes only, with or without the odd entries.
Slots == FileVersions \X {"up", "down"}
Directories ==
  { {File(sl[1], sl[2], content[sl]) : sl \in DOMAIN content} \cup odd :
      content \in UNION {[present -> {SqlScript, NoteScript}] : present \in SUBSET Slots},
      odd \in {{}, OddEntries} }

NoInfo == [Version |-> 0, UpFile |-> <<>>, DownFile |-> <<>>, hasUp |-> FALSE, hasDown |-> FALSE]
NoStatus == [CurrentVersion |-> 0, LatestVersion |-> 0, IsDirty |-> FALSE,
             AppliedMigrations |-> <<>>, PendingMigrations |-> <<>>, TotalMigrations |-> 0,
             AppliedCount |-> 0, PendingCount |-> 0]
NoMgrCall == [op |-> "", list |-> <<>>, err |-> Nil, status |-> NoStatus, upToDate |-> FALSE]

\* The loop of ListMigrations over the entries: the map from version to
\* MigrationInfo, with an entry for every name that passes the four tests.
Parsed(d) == {f \in d : ~f.isDir /\ f.sql /\ f.parts >= 2 /\ f.number}
InfoOf(d, v) ==
  LET ups == {f \in Parsed(d) : f.version = v /\ f.kind = "up"}
      downs == {f \in Parsed(d) : f.version = v /\ f.kind = "down"}
  IN [Version |-> v,
      hasUp |-> ups # {}, UpFile |-> IF ups = {} THEN <<>> ELSE (CHOOSE f \in ups : TRUE).lines,
      hasDown |-> downs # {}, DownFile |-> IF downs = {} THEN <<>> ELSE (CHOOSE f \in downs : TRUE).lines]
MigrationsMap(d) == {InfoOf(d, v) : v \in {f.version : f \in Parsed(d)}}

\* Mutant: a migration with an up file is listed.
Listed_UpOnly(d) == {m \in MigrationsMap(d) : m.hasUp}

\* The migrations that have both files.
Listed(d) == {m \in MigrationsMap(d) : m.hasUp /\ m.hasDown}

\* The orders in which ranging over the map can append the migrations of S.
Orders(S) ==
  {q \in [1..Cardinality(S) -> S] : \A i, j \in 1..Cardinality(S) : i # j => q[i] # q[j]}

\* The sort of ListMigrations: for i, for j > i, exchange result[i] and
\* result[j] when result[i].Version > result[j].Version.
Exchange(q, i, j) == [q EXCEPT ![i] = q[j], ![j] = q[i]]
RECURSIVE SortInner(_, _, _)
SortInner(q, i, j) ==
  IF j > Len(q) THEN q
  ELSE SortInner(IF q[i].Version > q[j].Version THEN Exchange(q, i, j) ELSE q, i, j + 1)
RECURSIVE SortOuter(_, _)
SortOuter(q, i) ==
  IF i > Len(q) - 1 THEN q ELSE SortOuter(SortInner(q, i, i + 1), i + 1)
SortByVersion(q) == SortOuter(q, 1)

\* The call op has returned list, err and status.
ManagerCall(op, list, err, status, upToDate) ==
  /\ mgr' = [op |-> op, list |-> list, err |-> err, status |-> status, upToDate |-> upToDate]
  /\ UNCHANGED <<table, txs, txWrites, carrier, frames, ent, pend, call, last, nops, fnErr,
                 panicking, outcome, entClean, cancelled, faults, effects, innerFailed,
                 trIn, trOut, migVars, dir, bootVars, waitVars, queryVars,
                 listVars,
                 optVars,
                 createVars>>

\* The errors of ValidateMigrations, with the version they name.
ValidationError(msg, version) ==
  <<[Layer("fmt", "", "", "", msg) EXCEPT !.note = ToString(version)]>>

\* The gap test of ValidateMigrations: the i-th listed migration does not
\* have version i.
GapAt(list, i) == list[i].Version # i

\* The loop of ValidateMigrations from the i-th listed migration on: the gap
\* test, the tests that both files exist, and the tests that both hold SQL.
RECURSIVE ValidateFrom(_, _)
ValidateFrom(list, i) ==
  IF i > Len(list) THEN Nil
  ELSE IF GapAt(list, i) THEN ValidationError("migration version gap detected", i)
  ELSE IF ~list[i].hasUp THEN ValidationError("up migration file missing", list[i].Version)
  ELSE IF ~list[i].hasDown THEN ValidationError("down migration file missing", list[i].Version)
  ELSE IF ~containsSQL(list[i].UpFile)
    THEN ValidationError("up migration file appears to be empty", list[i].Version)
  ELSE IF ~containsSQL(list[i].DownFile)
    THEN ValidationError("down migration file appears to be empty", list[i].Version)
  ELSE ValidateFrom(list, i + 1)

\* MigrationManager.ValidateMigrations.
ValidateMigrations ==
  \E q \in Orders(Listed(dir)) :
    LET migrations == SortByVersion(q)
    IN ManagerCall("ValidateMigrations", migrations, ValidateFrom(migrations, 1), NoStatus, FALSE)

\* Mutant: a migration of the current version is not applied.
IsApplied_Strict(version, currentVersion) == version < currentVersion

\* The test of GetStatus for an applied migration.
IsApplied(version, currentVersion) == version <= currentVersion

\* MigrationStatus.IsUpToDate.
IsUpToDate(ms) == ms.CurrentVersion = ms.LatestVersion /\ ~ms.IsDirty

\* Mutant: a dirty state without pending migrations needs no migration.
NeedsMigration_PendingOnly(ms) == ms.PendingCount > 0

\* MigrationStatus.NeedsMigration.
NeedsMigration(ms) == ms.PendingCount > 0 \/ ms.IsDirty

\* The MigrationStatus GetStatus builds of what Version returned and the
\* listed migrations.
StatusOf(current, migrations) ==
  LET Applied(m) == IsApplied(m.Version, current.version)
      Pending(m) == ~IsApplied(m.Version, current.version)
      appliedMigrations == SelectSeq(migrations, Applied)
      pendingMigrations == SelectSeq(migrations, Pending)
  IN [CurrentVersion |-> current.version,
      LatestVersion |-> IF Len(migrations) > 0 THEN migrations[Len(migrations)].Version ELSE 0,
      IsDirty |-> current.dirty,
      AppliedMigrations |-> appliedMigrations,
      PendingMigrations |-> pendingMigrations,
      TotalMigrations |-> Len(migrations),
      AppliedCount |-> Len(appliedMigrations),
      PendingCount |-> Len(pendingMigrations)]

\* MigrationManager.GetStatus, and IsUpToDate of the status it returns.
GetStatus ==
  \E q \in Orders(Listed(dir)) :
    LET migrations == SortByVersion(q)
        status == StatusOf(Version(mig), migrations)
    IN ManagerCall("GetStatus", migrations, Nil, status, IsUpToDate(status))

\* MigrationManager.ListMigrations.
ListMigrations ==
  \E q \in Orders(Listed(dir)) :
    ManagerCall("ListMigrations", SortByVersion(q), Nil, NoStatus, FALSE)

\* ---------------------------------------------------------------- health
MaxRetries == 5

NoWait == [pc |-> "idle", maxRetries |-> 0, i |-> 0, checks |-> 0, waits |-> 0,
           succeeded |-> FALSE, ctxDone |-> FALSE, result |-> ""]

\* WaitForConnection(ctx, maxRetries, retryInterval) at its first statement,
\* with ctx cancelled already or not.
WaitStart(maxRetries, ctxDone) ==
  [NoWait EXCEPT !.pc = "loop", !.maxRetries = maxRetries, !.ctxDone = ctxDone]

\* A step of WaitForConnection to the record w.
WaitStep(w) ==
  /\ wfc' = w
  /\ UNCHANGED <<table, txs, txWrites, carrier, frames, ent, pend, call, last, nops, fnErr,
                 panicking, outcome, entClean, cancelled, faults, effects, innerFailed,
                 trIn, trOut, migVars, dirVars, bootVars, queryVars,
                 listVars,
                 optVars,
                 createVars>>

\* The test of the for loop, and the return after the loop.
WaitLoop ==
  /\ wfc.pc = "loop"
  /\ WaitStep(IF wfc.i < wfc.maxRetries THEN [wfc EXCEPT !.pc = "check"]
              ELSE [wfc EXCEPT !.pc = "done", !.result = "not available"])

\* Mutant: a wait follows the last check too.
RetriesLeft_AfterLast(i, maxRetries) == i < maxRetries

\* The test before the select: another check is to come.
RetriesLeft(i, maxRetries) == i < maxRetries - 1

\* hc.QuickCheck(ctx), which ends within its timeout: nil returns nil; a
\* failure goes on to the select, or to the next round after the last check.
WaitCheck ==
  /\ wfc.pc = "check"
  /\ \E ok \in BOOLEAN :
       LET checked == [wfc EXCEPT !.checks = @ + 1]
       IN WaitStep(IF ok THEN [checked EXCEPT !.pc = "done", !.result = "nil", !.succeeded = TRUE]
                   ELSE IF RetriesLeft(wfc.i, wfc.maxRetries)
                     THEN [checked EXCEPT !.pc = "select", !.waits = @ + 1]
                   ELSE [checked EXCEPT !.pc = "loop", !.i = @ + 1])

\* The select: ctx.Done() returns ctx.Err(), the timer goes on to the next
\* round; with both ready either is taken.
WaitSelect ==
  /\ wfc.pc = "select"
  /\ \/ wfc.ctxDone /\ WaitStep([wfc EXCEPT !.pc = "done", !.result = "ctx.Err()"])
     \/ WaitStep([wfc EXCEPT !.pc = "loop", !.i = @ + 1])

\* The caller's ctx is cancelled or times out while the call runs.
WaitCtxDone ==
  /\ wfc.pc \in {"loop", "check", "select"}
  /\ ~wfc.ctxDone
  /\ WaitStep([wfc EXCEPT !.ctxDone = TRUE])

\* ---------------------------------------------------------------- query builder
MaxCalls == 4
MaxArgs == 3

\* What callers pass: one text for columns, tables and conditions, any number
\* of args up to MaxArgs, and the numbers of Limit and Offset.
SqlText == "t"
ArgLists == {[k \in 1..n |-> "a"] : n \in 0..MaxArgs}
Amounts == {10, 20}

DigitChars == <<"0", "1", "2", "3", "4", "5", "6", "7", "8", "9">>

\* fmt.Sprintf("%d", n) for n >= 0, as a sequence of characters.
RECURSIVE FormatInt(_)
FormatInt(n) ==
  IF n < 10 THEN <<DigitChars[n + 1]>>
  ELSE Append(FormatInt(n \div 10), DigitChars[(n % 10) + 1])

\* A piece of the query: the clause and what follows it.
Fragment(clause, text) == [clause |-> clause, text |-> text]

NewQueryBuilder == [query |-> <<>>, args |-> <<>>]

NoQueryCall == [op |-> "", arg |-> 0, before |-> NewQueryBuilder,
                ret |-> <<>>, calls |-> 0]

\* A call on the builder, leaving it as b and returning ret.
QueryCall(op, arg, b, ret) ==
  /\ qlast.calls < MaxCalls
  /\ qb' = b
  /\ qlast' = [op |-> op, arg |-> arg, before |-> qb, ret |-> ret,
               calls |-> qlast.calls + 1]
  /\ UNCHANGED <<table, txs, txWrites, carrier, frames, ent, pend, call, last, nops, fnErr,
                 panicking, outcome, entClean, cancelled, faults, effects, innerFailed,
                 trIn, trOut, migVars, dirVars, bootVars, waitVars,
                 listVars,
                 optVars,
                 createVars>>

Select == QueryCall("Select", 0, [qb EXCEPT !.query = <<Fragment("SELECT ", SqlText)>>], <<>>)

From == QueryCall("From", 0, [qb EXCEPT !.query = Append(@, Fragment(" FROM ", SqlText))], <<>>)

\* Where, And and Or: the clause with its condition, and the args appended.
Condition(op, clause) ==
  \E args \in ArgLists :
    QueryCall(op, 0, [query |-> Append(qb.query, Fragment(clause, SqlText)),
                      args |-> qb.args \o args], <<>>)

Where == Condition("Where", " WHERE ")

And == Condition("And", " AND ")

Or == Condition("Or", " OR ")

OrderBy == QueryCall("OrderBy", 0, [qb EXCEPT !.query = Append(@, Fragment(" ORDER BY ", SqlText))], <<>>)

\* Mutant: the placeholder counts from the args already there.
Placeholder_BeforeAppend(args) == FormatInt(Len(args))

\* The number after the $: len(qb.args)+1, printed.
Placeholder(args) == FormatInt(Len(args) + 1)

\* Limit and Offset: the clause with its placeholder, and the value appended.
Numbered(op, clause) ==
  \E n \in Amounts :
    QueryCall(op, n, [query |-> Append(qb.query, Fragment(clause, Placeholder(qb.args))),
                      args |-> Append(qb.args, n)], <<>>)

Limit == Numbered("Limit", " LIMIT $")

Offset == Numbered("Offset", " OFFSET $")

Build == QueryCall("Build", 0, qb, <<qb.query, qb.args>>)

\* ---------------------------------------------------------------- list and count
NumUsers == 2
MaxFilterLen == 2
MaxLimit == 2
MaxCreated == 2

UserIds == 1..NumUsers
\* The letters of the texts: two cases of one letter, another letter, and the
\* two wildcards of LIKE.
Letters == {"D", "o", "_"}
Emails == {<<"d", "o", "e">>, <<"e", "_">>}
Names == {<<"d">>, <<"o">>}
Statuses == {"active", "inactive"}

\* A row of users; password, updated_at and version take no part in a filter.
UserRow(id, email, first_name, status, created_at) ==
  [id |-> id, email |-> email, first_name |-> first_name, last_name |-> <<"e">>,
   status |-> status, created_at |-> created_at]

Tables ==
  {{UserRow(id, f[id][1], f[id][2], f[id][3], f[id][4]) : id \in UserIds} :
     f \in [UserIds -> Emails \X Names \X Statuses \X (1..MaxCreated)]}

\* The filters a caller passes: a *userModel.User with any of the four fields set.
Filters ==
  {[Status |-> st, Email |-> em, FirstName |-> fn, LastName |-> ln] :
     st \in {"", "active"},
     em \in SeqsUpTo(Letters, MaxFilterLen),
     fn \in {<<>>, <<"O">>},
     ln \in {<<>>, <<"e">>}}

\* One condition of the WHERE clause: column, operator and the number after $.
Cond(column, op, argIndex) == [column |-> column, op |-> op, argIndex |-> argIndex]

\* if present { conditions = append(...); args = append(...); argIndex++ }
AddCondition(acc, present, column, op, arg) ==
  IF present
    THEN [conditions |-> Append(acc.conditions, Cond(column, op, acc.argIndex)),
          args |-> Append(acc.args, arg),
          argIndex |-> acc.argIndex + 1]
  ELSE acc

\* "%" + text + "%"
Around(text) == <<"%">> \o text \o <<"%">>

\* UserRepository.buildWhereClause: the conditions, joined with AND by the
\* caller of the clause, and their args.
buildWhereClause(filter) ==
  LET a0 == [conditions |-> <<>>, args |-> <<>>, argIndex |-> 1]
      a1 == AddCondition(a0, filter.Status # "", "status", "=", filter.Status)
      a2 == AddCondition(a1, filter.Email # <<>>, "email", "ILIKE", Around(filter.Email))
      a3 == AddCondition(a2, filter.FirstName # <<>>, "first_name", "ILIKE", Around(filter.FirstName))
      a4 == AddCondition(a3, filter.LastName # <<>>, "last_name", "ILIKE", Around(filter.LastName))
  IN [conditions |-> a4.conditions, args |-> a4.args]

\* Mutant: the count has no WHERE clause.
buildCountQuery_Unfiltered(filter) ==
  [select |-> "COUNT(*)", where |-> <<>>, order |-> "", limit |-> 0, offset |-> 0,
   args |-> buildWhereClause(filter).args]

\* UserRepository.buildCountQuery.
buildCountQuery(filter) ==
  LET w == buildWhereClause(filter)
  IN [select |-> "COUNT(*)", where |-> w.conditions, order |-> "",
      limit |-> 0, offset |-> 0, args |-> w.args]

\* UserRepository.buildListQuery: limit and offset are the numbers after the
\* $ of LIMIT and OFFSET.
buildListQuery(filter, limit, offset) ==
  LET w == buildWhereClause(filter)
      argIndex == Len(w.args) + 1
  IN [select |-> "rows", where |-> w.conditions, order |-> "created_at DESC",
      limit |-> argIndex, offset |-> argIndex + 1,
      args |-> w.args \o <<limit, offset>>]

\* PostgreSQL: the letter in lower case.
Lower(c) == IF c = "D" THEN "d" ELSE c

\* PostgreSQL: text ILIKE pattern, % for any run of letters and _ for any one.
RECURSIVE ILike(_, _)
ILike(text, pattern) ==
  IF pattern = <<>> THEN text = <<>>
  ELSE IF Head(pattern) = "%"
    THEN ILike(text, Tail(pattern)) \/ (text # <<>> /\ ILike(Tail(text), pattern))
  ELSE IF Head(pattern) = "_"
    THEN text # <<>> /\ ILike(Tail(text), Tail(pattern))
  ELSE /\ text # <<>>
       /\ Lower(Head(text)) = Lower(Head(pattern))
       /\ ILike(Tail(text), Tail(pattern))

\* PostgreSQL: the row satisfies every condition of the WHERE clause.
Satisfies(row, query) ==
  \A i \in 1..Len(query.where) :
    LET cond == query.where[i]
        arg == query.args[cond.argIndex]
    IN IF cond.op = "=" THEN row[cond.column] = arg
       ELSE ILike(row[cond.column], arg)

Selected(query) == {row \in users : Satisfies(row, query)}

\* PostgreSQL: the orders ORDER BY created_at DESC can give the rows of S.
Descending(S) ==
  {q \in Orders(S) : \A i, j \in 1..Cardinality(S) :
     i < j => q[i].created_at >= q[j].created_at}

NoPaging == [pc |-> "idle", filter |-> <<>>, limit |-> 0, offset |-> 0,
             rows |-> <<>>, listed |-> 0, count |-> 0]

\* A step of the caller of List and Count to the record p.
Paging(p) ==
  /\ pg' = p
  /\ UNCHANGED <<table, txs, txWrites, carrier, frames, ent, pend, call, last, nops, fnErr,
                 panicking, outcome, entClean, cancelled, faults, effects, innerFailed,
                 trIn, trOut, migVars, dirVars, bootVars, waitVars, queryVars, users,
                 optVars,
                 createVars>>

\* UserRepository.List(ctx, filter, limit, offset) returning users, for the
\* next page; a page that is not full was the last.
ListFiltered ==
  /\ pg.pc = "list"
  /\ LET query == buildListQuery(pg.filter, pg.limit, pg.offset)
         limit == query.args[query.limit]
         offset == query.args[query.offset]
     IN \E q \in Descending(Selected(query)) :
          LET rows == SubSeq(q, offset + 1, Min(offset + limit, Len(q)))
          IN Paging([pg EXCEPT !.rows = rows,
                               !.listed = @ + Len(rows),
                               !.offset = @ + pg.limit,
                               !.pc = IF Len(rows) < pg.limit THEN "count" ELSE "list"])

\* UserRepository.Count(ctx, filter) returning count.
CountFiltered ==
  /\ pg.pc = "count"
  /\ Paging([pg EXCEPT !.count = Cardinality(Selected(buildCountQuery(pg.filter))),
                       !.pc = "done"])

\* ---------------------------------------------------------------- transaction options
MaxBegun == 2

\* A *sql.TxOptions: the presets of TransactionOptions, and nil, with which
\* BeginTxx begins a read-write transaction at the server's default level.
Options(isolation, readOnly) == [Isolation |-> isolation, ReadOnly |-> readOnly]
NilOptions == Options("LevelDefault", FALSE)
ReadOnly == Options("LevelReadCommitted", TRUE)
ReadCommitted == Options("LevelReadCommitted", FALSE)
RepeatableRead == Options("LevelRepeatableRead", FALSE)
Serializable == Options("LevelSerializable", FALSE)
TxOptions == {NilOptions, ReadOnly, ReadCommitted, RepeatableRead, Serializable}

\* frames: the calls in progress, each with the opts it was given, the
\* transaction its fn runs in and whether the call began it; begun: the
\* transactions BeginTxx has begun, with their options; stmt: the last
\* statement a fn issued.
NoOptTx == [frames |-> <<>>, begun |-> <<>>,
            stmt |-> [write |-> FALSE, tx |-> 0, err |-> Nil]]

\* A step of a unit of work that calls ExecuteInTransactionWithOptions.
OptionsStep(o) ==
  /\ otx' = o
  /\ UNCHANGED <<table, txs, txWrites, carrier, frames, ent, pend, call, last, nops, fnErr,
                 panicking, outcome, entClean, cancelled, faults, effects, innerFailed,
                 trIn, trOut, migVars, dirVars, bootVars, waitVars, queryVars, listVars,
                 createVars>>

\* Mutant: the token of the carrier is not found.
TokenOf_None(fs) == 0

\* GetTxFromContext(ctx) for the carrier the innermost fn holds: 0 for nil.
TokenOf(fs) == IF fs = <<>> THEN 0 ELSE fs[Len(fs)].tx

\* ExecuteInTransactionWithOptions(ctx, db, opts, fn) up to the call of fn.
ExecuteInTransactionWithOptions(opts) ==
  /\ Len(otx.frames) < MaxDepth
  /\ IF TokenOf(otx.frames) # 0
       THEN OptionsStep([otx EXCEPT !.frames = Append(@, [opts |-> opts, tx |-> TokenOf(otx.frames),
                                                           owner |-> FALSE])])
       ELSE /\ Len(otx.begun) < MaxBegun
            /\ OptionsStep([otx EXCEPT
                 !.begun = Append(@, [opts |-> opts, status |-> "open"]),
                 !.frames = Append(@, [opts |-> opts, tx |-> Len(otx.begun) + 1, owner |-> TRUE])])

\* The running fn issues a statement through its carrier: PostgreSQL refuses a
\* write in a read-only transaction (SQLSTATE 25006), which aborts it.
OptionsStatement(write) ==
  LET t == TokenOf(otx.frames)
      err == IF otx.begun[t].status = "failed" THEN PqAborted
             ELSE IF write /\ otx.begun[t].opts.ReadOnly THEN PqError("25006", "")
             ELSE Nil
  IN /\ otx.frames # <<>>
     /\ OptionsStep([otx EXCEPT !.stmt = [write |-> write, tx |-> t, err |-> err],
                                !.begun[t].status = IF err # Nil THEN "failed" ELSE @])

\* fn returns e: the call that began the transaction rolls back or commits, a
\* call that found a token returns what fn returned.
OptionsReturn(e) ==
  LET top == otx.frames[Len(otx.frames)]
      rest == SubSeq(otx.frames, 1, Len(otx.frames) - 1)
      status == IF Resolution(e) = "commit" /\ otx.begun[top.tx].status = "open"
                  THEN "committed" ELSE "rolledback"
  IN /\ otx.frames # <<>>
     /\ IF top.owner
          THEN OptionsStep([otx EXCEPT !.frames = rest, !.begun[top.tx].status = status])
          ELSE OptionsStep([otx EXCEPT !.frames = rest])

\* ---------------------------------------------------------------- create migration
\* The highest version CreateMigration is followed to, the longest name, and
\* the number of calls followed.
MaxCreateVersion == 2
MaxNameLen == 1
MaxCreates == 2

\* Names handed to CreateMigration: a letter in either case, a space.
NameChars == {"a", "A", " "}
CreateNames == SeqsUpTo(NameChars, MaxNameLen)

\* strings.ToLower of a character, and the two strings.ReplaceAll of
\* CreateMigration: a space and a dash become an underscore.
ToLower(c) == IF c = "A" THEN "a" ELSE c
ReplaceAll(c, old, new) == IF c = old THEN new ELSE c
CleanName(name) ==
  [i \in DOMAIN name |-> ReplaceAll(ReplaceAll(ToLower(name[i]), " ", "_"), "-", "_")]

\* fmt.Sprintf("%03d", version).
VersionStr(version) ==
  LET digits == FormatInt(version)
  IN [i \in 1..(IF Len(digits) < 3 THEN 3 - Len(digits) ELSE 0) |-> "0"] \o digits

\* strconv.ParseUint of the digits before the first "_" of a file name.
RECURSIVE ParseUint(_)
ParseUint(digits) ==
  IF digits = <<>> THEN 0
  ELSE 10 * ParseUint(SubSeq(digits, 1, Len(digits) - 1))
       + (CHOOSE d \in 0..9 : DigitChars[d + 1] = digits[Len(digits)])

\* fmt.Sprintf("%s_%s.up.sql", versionStr, cleanName) and its down twin: a
\* file name by its three parts.
FileName(versionStr, cleanName, kind) ==
  [prefix |-> versionStr, name |-> cleanName, kind |-> kind]

\* The file names of the directory: the names CreateMigration forms, and the
\* scripts "1_a.up.sql" and "1_a.down.sql" of version 1 without leading zeros.
Paths ==
  {FileName(VersionStr(v), CleanName(n), k) :
     v \in 1..MaxCreateVersion, n \in CreateNames \ {<<>>}, k \in {"up", "down"}}
  \cup {FileName(FormatInt(1), <<"a">>, k) : k \in {"up", "down"}}

\* What a file name holds: nothing, a file that was there before, or a file
\* CreateMigration wrote, whole or cut short.
NoFile == [exists |-> FALSE, text |-> "", name |-> <<>>, whole |-> FALSE]
OldFile == [exists |-> TRUE, text |-> "sql", name |-> <<>>, whole |-> TRUE]
upContent(name) ==
  [exists |-> TRUE, text |-> "-- Migration: ", name |-> name, whole |-> TRUE]
downContent(name) ==
  [exists |-> TRUE, text |-> "-- Migration rollback: ", name |-> name, whole |-> TRUE]

NoFiles == [p \in Paths |-> NoFile]
NoMigrationInfo == [Version |-> 0, Name |-> <<>>, UpFile |-> <<>>, DownFile |-> <<>>,
                    Description |-> <<>>]
NoCreate == [calls |-> 0, name |-> <<>>, err |-> Nil, info |-> NoMigrationInfo]

\* os.ReadDir as ListMigrations reads it: the entries of the files present.
ReadDir(d) == {File(ParseUint(p.prefix), p.kind, <<>>) : p \in {x \in Paths : d[x].exists}}

\* The ways os.WriteFile ends: written; not opened, which leaves the directory
\* as it was; opened, which creates or truncates the file, and then failed in
\* Write or Close, which leaves the file with a part of the data.
WriteFates == {"written", "not opened", "cut short"}
ErrOpen == DriverError("open: permission denied")
ErrWrite == DriverError("write: no space left on device")
ErrReadDir == DriverError("open: no such file or directory")

\* os.WriteFile(path, data, 0644).
WriteFile(d, path, data, fate) ==
  [dir |-> IF fate = "written" THEN [d EXCEPT ![path] = data]
           ELSE IF fate = "cut short" THEN [d EXCEPT ![path] = [data EXCEPT !.whole = FALSE]]
           ELSE d,
   err |-> IF fate = "written" THEN Nil
           ELSE IF fate = "cut short" THEN ErrWrite
           ELSE ErrOpen]

\* os.Remove(path), whose error CreateMigration drops.
Remove(d, path, removed) == IF removed THEN [d EXCEPT ![path] = NoFile] ELSE d

\* os.Stat(path) returns no error.
Stat(d, path) == d[path].exists

\* getNextVersion, of the list ListMigrations returned.
getNextVersion(migrations) ==
  IF Len(migrations) = 0 THEN 1 ELSE migrations[Len(migrations)].Version + 1

CreateFailed(d, err) == [dir |-> d, err |-> err, info |-> NoMigrationInfo]

\* CreateMigration(name) on directory d, where ListMigrations returns
\* migrations or fails in os.ReadDir, and the two writes and the removal end
\* as given.
CreateResult(d, name, migrations, listed, upFate, downFate, removed) ==
  LET cleanName == CleanName(name)
      version == getNextVersion(migrations)
      upFile == FileName(VersionStr(version), cleanName, "up")
      downFile == FileName(VersionStr(version), cleanName, "down")
      up == WriteFile(d, upFile, upContent(name), upFate)
      down == WriteFile(up.dir, downFile, downContent(name), downFate)
  IN IF name = <<>> THEN CreateFailed(d, Errorf("migration name cannot be empty", "", Nil))
     ELSE IF ~listed
       THEN CreateFailed(d, Errorf("failed to get next version", "",
                                   Errorf("failed to read migrations directory", "", ErrReadDir)))
     ELSE IF Stat(d, upFile)
       THEN CreateFailed(d, Errorf("migration file already exists", "up", Nil))
     ELSE IF Stat(d, downFile)
       THEN CreateFailed(d, Errorf("migration file already exists", "down", Nil))
     ELSE IF up.err # Nil
       THEN CreateFailed(up.dir, Errorf("failed to create up migration file", "", up.err))
     ELSE IF down.err # Nil
       THEN CreateFailed(Remove(down.dir, upFile, removed),
                         Errorf("failed to create down migration file", "", down.err))
     ELSE [dir |-> down.dir, err |-> Nil,
           info |-> [Version |-> version, Name |-> cleanName, UpFile |-> upFile,
                     DownFile |-> downFile, Description |-> name]]

\* MigrationManager.CreateMigration(name).
CreateMigration(name, listed, upFate, downFate, removed) ==
  \E q \in Orders(Listed(ReadDir(cdir))) :
    LET migrations == SortByVersion(q)
        res == CreateResult(cdir, name, migrations, listed, upFate, downFate, removed)
    IN /\ cm.calls < MaxCreates
       /\ getNextVersion(migrations) <= MaxCreateVersion
       /\ cdir' = res.dir
       /\ cm' = [calls |-> cm.calls + 1, name |-> name, err |-> res.err, info |-> res.info]
       /\ UNCHANGED <<table, txs, txWrites, carrier, frames, ent, pend, call, last, nops, fnErr,
                      panicking, outcome, entClean, cancelled, faults, effects, innerFailed,
                      trIn, trOut, migVars, dirVars, bootVars, waitVars, queryVars,
                      listVars, optVars>>

\* ---------------------------------------------------------------- startup
\* A step of Main from one place to the next that leaves everything else.
MainStep(from, to) ==
  /\ boot = from
  /\ boot' = to
  /\ UNCHANGED <<table, txs, txWrites, carrier, frames, ent, pend, call, last, nops, fnErr,
                 panicking, outcome, entClean, cancelled, faults, effects, innerFailed,
                 trIn, trOut, migVars, dirVars, waitVars, queryVars,
                 listVars,
                 optVars,
                 createVars>>

\* Main: config.LoadConfig, and panic(err) if it fails.
MainLoadConfig == \E ok \in BOOLEAN : MainStep("start", IF ok THEN "configured" ELSE "panicked")

\* Main: database.NewManager, which connects, validates the connection and
\* creates the migration runner without running a migration; panic(err) if
\* it fails.
MainNewManager == \E ok \in BOOLEAN : MainStep("configured", IF ok THEN "managed" ELSE "panicked")

\* Main: fiber.New, NewUserModule and userModel.Run, which builds the
\* repository on dbManager.DB and sets up the routes.
MainRunModule == MainStep("managed", "routed")

\* Main: httpApp.Listen(":8080").
MainListen == MainStep("routed", "listening")

\* A request that the listening application serves through the repository.
Serve(u) ==
  /\ boot = "listening"
  /\ \/ \E id \in RepoIds, v \in CreateVersions : Create(u, id, v)
     \/ \E id \in RepoIds : GetByID(u, id)
     \/ \E id \in RepoIds : Delete(u, id)

\* ---------------------------------------------------------------- specification
\* The table is empty or holds rows that earlier units created through NewUser,
\* and a unit may already hold the entity it read from such a row.
Init ==
  /\ table \in {[id \in Ids |-> IF id \in present THEN MkRow(1, 0) ELSE NoRow] : present \in SUBSET RepoIds}
  /\ txs = [t \in TxIds |-> NoTxRec]
  /\ txWrites = [t \in TxIds |-> [i \in Ids |-> Untouched]]
  /\ carrier = [u \in Units |-> NoTx]
  /\ frames = [u \in Units |-> <<>>]
  /\ \E holders \in SUBSET Units :
       /\ holders # {} => table["u1"].present
       /\ ent = [u \in Units |-> IF u \in holders THEN MkEnt("u1", 1, u) ELSE NoEnt]
       /\ entClean = [u \in Units |-> u \in holders]
  /\ pend = [u \in Units |-> NoEnt]
  /\ call = [u \in Units |-> NoCall]
  /\ last = NoLast
  /\ nops = 0
  /\ fnErr = [u \in Units |-> Nil]
  /\ panicking = [u \in Units |-> ""]
  /\ outcome = [u \in Units |-> NoOutcome]
  /\ cancelled = [u \in Units |-> FALSE]
  /\ trIn = [op |-> "", err |-> Nil]
  /\ trOut = Nil
  /\ mig = NoMig
  /\ ran = <<>>
  /\ source = 1..MaxMigration
  /\ mlast = NoMigCall
  /\ mprev = NoPrevCall
  /\ dir = {}
  /\ mgr = NoMgrCall
  /\ wfc = NoWait
  /\ qb = NewQueryBuilder
  /\ qlast = NoQueryCall
  /\ users = {}
  /\ pg = NoPaging
  /\ otx = NoOptTx
  /\ cdir = NoFiles
  /\ cm = NoCreate
  /\ boot = "start"
  /\ faults = 0
  /\ effects = [u \in Units |-> {}]
  /\ innerFailed = [u \in Units |-> FALSE]

\* Units of work calling the repository on the pooled connection.
NextRepo ==
  \E u \in Units :
    \/ \E id \in RepoIds, v \in CreateVersions : Create(u, id, v)
    \/ \E id \in RepoIds : GetByID(u, id)
    \/ \E id \in RepoIds : Delete(u, id)
    \/ UpdateExec(u)
    \/ UpdateProbe(u)

SpecRepo == Init /\ [][NextRepo]_vars

\* The same units, with a connection that may be lost before the probe of Update.
NextProbe == NextRepo \/ \E u \in Units : UpdateProbeFails(u)

SpecProbe == Init /\ [][NextProbe]_vars

\* Calls of the translator, on every operation name and error.
NextErr == \E operation \in Operations, err \in NativeErrors \cup {Nil} : Translate(operation, err)

SpecErr == Init /\ [][NextErr]_vars

\* Units of work that each run one outermost ExecuteInTransaction, whose fn
\* bodies call the repository through the carrier and may nest further calls.
NextTx ==
  \E u \in Units :
    \/ ExecEnter(u)
    \/ ExecBeginFails(u)
    \/ \E e \in FnResults(u) : NestedReturn(u, e)
    \/ \E e \in FnResults(u), ok \in BOOLEAN : ExecLeave(u, e, ok)
    \/ \E p \in PanicValues : FnPanic(u, p)
    \/ \E ok \in BOOLEAN : ExecUnwind(u, ok)
    \/ /\ frames[u] # <<>>
       /\ nops < MaxFnOps \/ pend[u] # NoEnt
       /\ \/ \E id \in Ids : Create(u, id, 1)
          \/ \E id \in RepoIds : GetByID(u, id)
          \/ \E id \in RepoIds : Delete(u, id)
          \/ UpdateExec(u)
          \/ UpdateProbe(u)

SpecTx == Init /\ [][NextTx]_vars

\* Units that call the repository both on the pooled connection and inside
\* ExecuteInTransaction, nested or not, with no driver failure and no panic.
NextRoute ==
  \E u \in Units :
    \/ ExecEnter(u)
    \/ \E e \in FnResults(u) : NestedReturn(u, e)
    \/ \E e \in FnResults(u) : ExecLeave(u, e, TRUE)
    \/ /\ nops < MaxFnOps \/ pend[u] # NoEnt
       /\ \/ \E id \in Ids : Create(u, id, 1)
          \/ \E id \in RepoIds : GetByID(u, id)
          \/ \E id \in RepoIds : Delete(u, id)
          \/ UpdateExec(u)
          \/ UpdateProbe(u)
          \/ Count(u)
          \/ List(u)

SpecRoute == Init /\ [][NextRoute]_vars

\* Units running ExecuteInTransaction, not nested, whose carrier may be
\* cancelled while fn runs; fn creates and reads rows, and makes no repository
\* call once its carrier is cancelled.
NextCancel ==
  \E u \in Units :
    \/ frames[u] = <<>> /\ ExecEnter(u)
    \/ \E e \in FnResults(u), ok \in BOOLEAN : ExecLeave(u, e, ok)
    \/ CtxCancel(u)
    \/ \E t \in TxIds : AwaitDone(u, t)
    \/ /\ frames[u] # <<>>
       /\ ~cancelled[u]
       /\ nops < MaxFnOps
       /\ \/ \E id \in Ids : Create(u, id, 1)
          \/ \E id \in RepoIds : GetByID(u, id)

SpecCancel == Init /\ [][NextCancel]_vars

\* An operator driving the migration runner and the migration manager,
\* with scripts that succeed or fail partway.
NextMig ==
  \/ Up("Up")
  \/ Down("Down")
  \/ \E n \in -MaxSteps..MaxSteps : Steps("Steps", n)
  \/ \E v \in -2..MaxMigration : Force("Force", v)
  \/ MigrateUp
  \/ MigrateDown
  \/ \E n \in -MaxSteps..MaxSteps : MigrateSteps(n)
  \/ \E t \in 0..MaxMigration : MigrateTo(t)
  \/ \E v \in -2..MaxMigration : ManagerForce(v)

\* The users table is empty before the first migration, and no unit of work
\* has started.
InitIdle ==
  /\ table = [id \in Ids |-> NoRow]
  /\ txs = [t \in TxIds |-> NoTxRec]
  /\ txWrites = [t \in TxIds |-> [i \in Ids |-> Untouched]]
  /\ carrier = [u \in Units |-> NoTx]
  /\ frames = [u \in Units |-> <<>>]
  /\ ent = [u \in Units |-> NoEnt]
  /\ entClean = [u \in Units |-> FALSE]
  /\ pend = [u \in Units |-> NoEnt]
  /\ call = [u \in Units |-> NoCall]
  /\ last = NoLast
  /\ nops = 0
  /\ fnErr = [u \in Units |-> Nil]
  /\ panicking = [u \in Units |-> ""]
  /\ outcome = [u \in Units |-> NoOutcome]
  /\ cancelled = [u \in Units |-> FALSE]
  /\ trIn = [op |-> "", err |-> Nil]
  /\ trOut = Nil
  /\ faults = 0
  /\ effects = [u \in Units |-> {}]
  /\ innerFailed = [u \in Units |-> FALSE]
  /\ boot = "start"

\* The source holds any set of script pairs.
InitMig ==
  /\ InitIdle
  /\ mig = NoMig
  /\ ran = <<>>
  /\ source \in Sources
  /\ mlast = NoMigCall
  /\ mprev = NoPrevCall
  /\ dir = {}
  /\ mgr = NoMgrCall
  /\ wfc = NoWait
  /\ qb = NewQueryBuilder
  /\ qlast = NoQueryCall
  /\ users = {}
  /\ pg = NoPaging
  /\ otx = NoOptTx
  /\ cdir = NoFiles
  /\ cm = NoCreate

SpecMig == InitMig /\ [][NextMig]_vars

\* A migration manager over any directory and any stored migration state.
NextDir ==
  \/ ListMigrations
  \/ ValidateMigrations
  \/ GetStatus

\* The rows of schema_migrations that runs and Force calls can leave.
Rows == {NoMig} \cup {[version |-> v, dirty |-> d] : v \in {NilVersion} \cup 0..MaxFileVersion, d \in BOOLEAN}

InitDir ==
  /\ InitIdle
  /\ mig \in Rows
  /\ ran = <<>>
  /\ source = 1..MaxMigration
  /\ mlast = NoMigCall
  /\ mprev = NoPrevCall
  /\ dir \in Directories
  /\ mgr = NoMgrCall
  /\ wfc = NoWait
  /\ qb = NewQueryBuilder
  /\ qlast = NoQueryCall
  /\ users = {}
  /\ pg = NoPaging
  /\ otx = NoOptTx
  /\ cdir = NoFiles
  /\ cm = NoCreate

SpecDir == InitDir /\ [][NextDir]_vars

\* A directory with the pair of version 1, one script of it any short text and
\* the other one SQL or notes, and perhaps the pair of version 2.
InitScripts ==
  /\ InitIdle
  /\ mig = NoMig
  /\ ran = <<>>
  /\ source = 1..MaxMigration
  /\ mlast = NoMigCall
  /\ mprev = NoPrevCall
  /\ \E up \in Scripts, down \in {SqlScript, NoteScript},
        more \in {{}, {File(2, "up", SqlScript), File(2, "down", SqlScript)}} :
       dir \in { {File(1, "up", up), File(1, "down", down)} \cup more,
                 {File(1, "up", down), File(1, "down", up)} \cup more }
  /\ mgr = NoMgrCall
  /\ wfc = NoWait
  /\ qb = NewQueryBuilder
  /\ qlast = NoQueryCall
  /\ users = {}
  /\ pg = NoPaging
  /\ otx = NoOptTx
  /\ cdir = NoFiles
  /\ cm = NoCreate

\* Validation of directories whose scripts are any short texts.
NextScripts == ValidateMigrations

SpecScripts == InitScripts /\ [][NextScripts]_vars

\* The application from the start of Main on, over any migration source.
NextBoot ==
  \/ MainLoadConfig
  \/ MainNewManager
  \/ MainRunModule
  \/ MainListen
  \/ \E u \in Units : Serve(u)

SpecBoot == InitMig /\ [][NextBoot]_vars

\* No migration has been run and no manager call made.
InitNoMigration ==
  /\ mig = NoMig
  /\ ran = <<>>
  /\ source = 1..MaxMigration
  /\ mlast = NoMigCall
  /\ mprev = NoPrevCall
  /\ dir = {}
  /\ mgr = NoMgrCall

\* A call of WaitForConnection with any number of retries.
InitWait ==
  /\ InitIdle
  /\ InitNoMigration
  /\ wfc \in {WaitStart(maxRetries, ctxDone) : maxRetries \in 0..MaxRetries, ctxDone \in BOOLEAN}
  /\ qb = NewQueryBuilder
  /\ qlast = NoQueryCall
  /\ users = {}
  /\ pg = NoPaging
  /\ otx = NoOptTx
  /\ cdir = NoFiles
  /\ cm = NoCreate

WaitRuns == WaitLoop \/ WaitCheck \/ WaitSelect

NextWait == WaitRuns \/ WaitCtxDone

SpecWait == InitWait /\ [][NextWait]_vars

\* QuickCheck ends within its timeout and the select with its timer, so the
\* call always goes on.
SpecWaitFair == SpecWait /\ WF_vars(WaitRuns)

\* A new builder.
InitQuery ==
  /\ InitIdle
  /\ InitNoMigration
  /\ wfc = NoWait
  /\ qb = NewQueryBuilder
  /\ qlast = NoQueryCall
  /\ users = {}
  /\ pg = NoPaging
  /\ otx = NoOptTx
  /\ cdir = NoFiles
  /\ cm = NoCreate

NextQuery == Select \/ From \/ Where \/ And \/ Or \/ OrderBy \/ Limit \/ Offset \/ Build

SpecQuery == InitQuery /\ [][NextQuery]_vars

\* No call of WaitForConnection and a new query builder.
InitNoCalls ==
  /\ wfc = NoWait
  /\ qb = NewQueryBuilder
  /\ qlast = NoQueryCall

\* A caller about to page through List with any filter and page size, on any table.
InitList ==
  /\ InitIdle
  /\ InitNoMigration
  /\ InitNoCalls
  /\ otx = NoOptTx
  /\ cdir = NoFiles
  /\ cm = NoCreate
  /\ users \in Tables
  /\ pg \in {[NoPaging EXCEPT !.pc = "list", !.filter = filter, !.limit = limit] :
               filter \in Filters, limit \in 1..MaxLimit}

NextList == ListFiltered \/ CountFiltered

SpecList == InitList /\ [][NextList]_vars

\* A unit of work about to call ExecuteInTransactionWithOptions.
InitOptions ==
  /\ InitIdle
  /\ InitNoMigration
  /\ InitNoCalls
  /\ users = {}
  /\ pg = NoPaging
  /\ otx = NoOptTx
  /\ cdir = NoFiles
  /\ cm = NoCreate

NextOptions ==
  \/ \E opts \in TxOptions : ExecuteInTransactionWithOptions(opts)
  \/ \E write \in BOOLEAN : OptionsStatement(write)
  \/ \E e \in {Nil, AppErr} : OptionsReturn(e)

SpecOptions == InitOptions /\ [][NextOptions]_vars

\* The names of version 1, with and without leading zeros.
OldPaths == {p \in Paths : ParseUint(p.prefix) = 1}

\* CreateMigration in a directory holding any files of version 1 of other
\* origin, with every outcome of its reads and writes.
InitCreate ==
  /\ InitIdle
  /\ InitNoMigration
  /\ InitNoCalls
  /\ users = {}
  /\ pg = NoPaging
  /\ otx = NoOptTx
  /\ cdir \in {[p \in Paths |-> IF p \in S THEN OldFile ELSE NoFile] : S \in SUBSET OldPaths}
  /\ cm = NoCreate

\* How a call can go: ListMigrations fails, or it returns and the write of the
\* up file ends in one of its ways, or that write succeeds and the write of the
\* down file fails, after which the removal of the up file succeeds or not.
CreateFates ==
  {<<FALSE, "written", "written", TRUE>>}
  \cup {<<TRUE, upFate, "written", TRUE>> : upFate \in WriteFates}
  \cup {<<TRUE, "written", downFate, removed>> :
          downFate \in WriteFates \ {"written"}, removed \in BOOLEAN}

NextCreate ==
  \E name \in CreateNames, f \in CreateFates : CreateMigration(name, f[1], f[2], f[3], f[4])

SpecCreate == InitCreate /\ [][NextCreate]_vars

\* ---------------------------------------------------------------- claims
\* The units whose latest Update call submitted version w for id, with no
\* writer other than such calls since they observed the row.
UpdateGroup(id, w) ==
  {u \in Units : call[u].phase # "none" /\ call[u].id = id /\ call[u].ver = w /\ call[u].clean}

\* C1: of N >= 2 concurrent Update calls on one identifier that all observed
\* version v and all submit v + 1, with no other writer, once all have returned
\* exactly one returned success, every other returned OptimisticLock, and the
\* stored version is v + 1.
C1_ExactlyOneUpdateWins ==
  \A id \in Ids, w \in 1..MaxVersion :
    LET G == UpdateGroup(id, w)
    IN (Cardinality(G) >= 2 /\ \A u \in G : call[u].phase = "done")
         => /\ Cardinality({u \in G : call[u].err = Nil}) = 1
            /\ \A u \in G : call[u].err # Nil => call[u].err = ErrOptimisticLock
            /\ table[id].present
            /\ table[id].version = w

\* Two calls of one group have returned, one with success and one with
\* OptimisticLock.
C1_Witness ==
  \E id \in Ids, w \in 1..MaxVersion :
    LET G == UpdateGroup(id, w)
    IN /\ Cardinality(G) >= 2
       /\ \A u \in G : call[u].phase = "done"
       /\ \E u \in G : call[u].err = ErrOptimisticLock
       /\ \E u \in G : call[u].err = Nil

\* C2: an Update whose conditional UPDATE found no stored row for the
\* identifier returns NotFound, never OptimisticLock, whatever other units do
\* between the UPDATE and the Exists probe.
C2_NotFoundWhenNoRow ==
  \A u \in Units :
    (call[u].phase = "done" /\ ~call[u].rowAtExec) => call[u].err = ErrNotFound

\* C3: the stored version of a row never decreases, a successful Update makes
\* it the old version plus one, which is the version submitted, and a failed
\* Update leaves the stored rows as they were.
C3_VersionSteps ==
  [][ /\ \A id \in Ids :
           (table[id].present /\ table'[id].present) => table'[id].version >= table[id].version
      /\ (last'.op = "Update" /\ last'.phase = "done" /\ last'.err = Nil)
           => /\ table[last'.id].present
              /\ table'[last'.id].present
              /\ table'[last'.id].version = table[last'.id].version + 1
              /\ table'[last'.id].version = last'.ver
      /\ (last'.op = "Update" /\ (last'.phase = "probe" \/ last'.err # Nil))
           => table' = table
    ]_vars

\* An Update has succeeded on a row of version 2 or more, and another has failed.
C3_Witness ==
  /\ last.op = "Update" /\ last.phase = "done" /\ last.err = Nil /\ last.ver >= 3
  /\ table[last.id].version = last.ver
  /\ \E u \in Units : call[u].phase = "done" /\ call[u].err # Nil

\* C4: after Create succeeds the stored row has version 1, whatever entity
\* was passed.
C4_CreateStoresVersionOne ==
  (last.op = "Create" /\ last.phase = "done" /\ last.err = Nil)
    => (table[last.id].present /\ table[last.id].version = 1)

\* The transactions unit u may begin, and the one its outermost call begins.
TxsOf(u) == {TxOf(u, d) : d \in 1..MaxDepth}
RootTx(u) == TxOf(u, 1)
Resolved(t) == txs[t].status \in {"committed", "rolledback", "lost"}

\* C5: a call of ExecuteInTransaction that gets a carrier holding a token begins
\* no transaction and runs fn with that same carrier, so a unit of work has at
\* most one live transaction however deep its calls nest.
C5_NestedCallReusesToken ==
  \A u \in Units :
    /\ \A d \in 1..Depth(u) :
         frames[u][d].saved # NoTx
           => /\ frames[u][d].owner = NoTx
              /\ carrier[u] = frames[u][d].saved
    /\ \A d \in 2..MaxDepth : txs[TxOf(u, d)].status = "none"
    /\ Cardinality({t \in TxsOf(u) : Live(t)}) <= 1

\* A unit is inside a nested call, whose fn runs on the outer call's transaction.
C5_Witness ==
  \E u \in Units :
    /\ Depth(u) = 2
    /\ frames[u][2].owner = NoTx
    /\ frames[u][2].saved = RootTx(u)
    /\ carrier[u] = RootTx(u)
    /\ Live(RootTx(u))

\* C6: when a nested call has returned a failure, then at the return of the
\* outermost call either every write the fn bodies made, outer and inner, is in
\* the stored table or none of them has reached it; none has if the outermost
\* fn passed a failure on.
C6_NestedFailureAllOrNothing ==
  [][ \A u \in Units :
        (outcome[u].state = "none" /\ outcome'[u].state # "none" /\ innerFailed[u])
          => /\ \/ \A e \in effects[u] :
                     e.tx # NoTx /\ table'[e.id] = txWrites[e.tx][e.id]
                \/ /\ table' = table
                   /\ \A e \in effects[u] : e.tx # NoTx /\ ~Resolved(e.tx)
             /\ (outcome'[u].state = "panicked" \/ outcome'[u].fn # Nil) => table' = table
    ]_vars

\* An outermost call has returned a failure after a nested call failed, with
\* writes made at both depths, and none of them is stored.
C6_Witness ==
  \E u \in Units :
    /\ outcome[u].state = "returned"
    /\ outcome[u].fn # Nil
    /\ innerFailed[u]
    /\ \E e \in effects[u] : e.depth = 1
    /\ \E e \in effects[u] : e.depth = 2
    /\ txs[RootTx(u)].status = "rolledback"
    /\ \A e \in effects[u] : table[e.id] # txWrites[e.tx][e.id]

\* C7: a transaction a call has begun stays open only while that call runs, is
\* then committed or rolled back by exactly one call of Commit or Rollback, made
\* by the call that began it, and that call is an outermost one.
C7_ResolvedExactlyOnce ==
  \A u \in Units : \A t \in TxsOf(u) :
    /\ txs[t].commits + txs[t].rollbacks <= 1
    /\ txs[t].status # "none" => txs[t].beganAt = 1
    /\ Live(t) => /\ txs[t].commits + txs[t].rollbacks = 0
                  /\ Depth(u) >= txs[t].beganAt
                  /\ frames[u][txs[t].beganAt].owner = t
    /\ (txs[t].status # "none" /\ ~Live(t))
         => /\ txs[t].commits + txs[t].rollbacks = 1
            /\ txs[t].resolvedAt = txs[t].beganAt
            /\ txs[t].status = "committed" => txs[t].commits = 1
            /\ txs[t].status = "rolledback" => txs[t].rollbacks = 1
    /\ outcome[u].state # "none" => ~Live(t)

\* One unit has left by a panic and another by an error of fn, each with its
\* transaction rolled back by one call of Rollback.
C7_Witness ==
  \E u, v \in Units :
    /\ outcome[u].state = "panicked"
    /\ txs[RootTx(u)].status = "rolledback" /\ txs[RootTx(u)].rollbacks = 1
    /\ outcome[v].state = "returned" /\ outcome[v].fn # Nil
    /\ txs[RootTx(v)].status = "rolledback" /\ txs[RootTx(v)].rollbacks = 1

\* C8: the stored table, which is what other units read, changes only at the
\* return of an outermost call that returns nil, and then every write its fn
\* made through the carrier is in it; while fn runs, and when the call returns
\* an error or fn panics, the table stays as it is.
C8_VisibleIffNil ==
  [][ /\ table' # table
        => \E u \in Units : /\ outcome[u].state = "none"
                            /\ outcome'[u].state = "returned"
                            /\ outcome'[u].err = Nil
      /\ \A u \in Units :
           (outcome[u].state = "none" /\ outcome'[u].state = "returned" /\ outcome'[u].err = Nil)
             => \A e \in effects[u] : e.tx # NoTx /\ table'[e.id] = txWrites[e.tx][e.id]
    ]_vars

\* One unit has returned nil and its write is stored, another has returned an
\* error and its write is not.
C8_Witness ==
  \E u, v \in Units :
    /\ outcome[u].state = "returned" /\ outcome[u].err = Nil
    /\ \E e \in effects[u] : table[e.id] = txWrites[e.tx][e.id]
    /\ outcome[v].state = "returned" /\ outcome[v].err # Nil
    /\ effects[v] # {}
    /\ \A e \in effects[v] : table[e.id] # txWrites[e.tx][e.id]

\* C9: when fn returned an error the transaction is rolled back, not committed;
\* the call returns that very error if Rollback succeeded, and else an error
\* that tells of the rollback failure and shows the rollback error; errors.Is
\* against fn's error holds of what is returned in both cases.
C9_FnErrorPropagates ==
  \A u \in Units :
    (outcome[u].state = "returned" /\ outcome[u].fn # Nil)
      => /\ txs[RootTx(u)].rollbacks = 1
         /\ txs[RootTx(u)].commits = 0
         /\ txs[RootTx(u)].status = "rolledback" => outcome[u].err = outcome[u].fn
         /\ txs[RootTx(u)].status = "lost"
              => /\ outcome[u].err # outcome[u].fn
                 /\ outcome[u].err[1].msg = "failed to rollback transaction"
                 /\ outcome[u].err[1].note = Text(DriverError("rollback"))
         /\ ErrorsIs(outcome[u].err, outcome[u].fn)
         /\ IsNotFoundError(outcome[u].fn) => IsNotFoundError(outcome[u].err)

\* fn returned the NotFound of a repository call, Rollback failed, and the
\* error returned is another one that still answers to NotFound.
C9_Witness ==
  \E u \in Units :
    /\ outcome[u].state = "returned"
    /\ IsNotFoundError(outcome[u].fn)
    /\ txs[RootTx(u)].status = "lost"
    /\ outcome[u].err # outcome[u].fn
    /\ IsNotFoundError(outcome[u].err)

\* C10: when fn returned nil the transaction is committed, and the error of a
\* failed Commit, like that of a failed BeginTxx, is of kind TransactionFailed.
C10_CommitFailureIsTransactionFailed ==
  \A u \in Units :
    /\ (outcome[u].state = "returned" /\ outcome[u].fn = Nil /\ outcome[u].via # "begin-failed")
         => /\ txs[RootTx(u)].commits = 1
            /\ txs[RootTx(u)].rollbacks = 0
    /\ (outcome[u].state = "returned" /\ outcome[u].fn = Nil /\ outcome[u].err # Nil)
         => IsTransactionError(outcome[u].err)

\* C11: while a panic unwinds a unit, the call that began the transaction calls
\* Rollback once, and never Commit, in the step in which the panic leaves it;
\* the panic keeps its value from call to call up to the unit's caller, which
\* gets that value as a panic and never a return value.
C11_PanicRollsBackAndPropagates ==
  [][ \A u \in Units :
        panicking[u] # ""
          => /\ outcome'[u].state # "returned"
             /\ panicking'[u] # "" => panicking'[u] = panicking[u]
             /\ outcome'[u].state = "panicked"
                  => /\ outcome'[u].value = panicking[u]
                     /\ outcome'[u].err = Nil
                     /\ \A t \in TxsOf(u) : ~Live(t)'
             /\ \A d \in 1..Depth(u) :
                  (frames[u][d].owner # NoTx /\ Depth(u)' < d)
                    => /\ txs'[frames[u][d].owner].rollbacks = 1
                       /\ txs'[frames[u][d].owner].commits = 0
                       /\ txs'[frames[u][d].owner].status \in {"rolledback", "lost"}
    ]_vars

\* A panic raised in a nested call is on its way out of one unit, and another
\* unit's caller has got the panic value, the transaction rolled back.
C11_Witness ==
  \E u, v \in Units :
    /\ panicking[u] \in PanicValues
    /\ Depth(u) = 2
    /\ Live(RootTx(u))
    /\ outcome[v].state = "panicked"
    /\ outcome[v].value \in PanicValues
    /\ txs[RootTx(v)].status = "rolledback"
    /\ effects[v] # {}
    /\ \A e \in effects[v] : table[e.id] # txWrites[e.tx][e.id]

\* A step in which a repository statement runs.
RepoStep == nops' # nops \/ \E u \in Units : pend[u] # NoEnt /\ pend'[u] = NoEnt

\* C12: every statement of a repository call, the Exists probe of Update
\* included, runs on the transaction whose token the caller's carrier holds, and
\* on the pool exactly when the carrier holds none: a call given a token writes
\* nothing to the stored table, and no call touches a transaction other than the
\* one of its carrier, which is the one its unit's outermost call began.
C12_OperationsFollowCarrier ==
  [][ RepoStep =>
        LET u == last'.unit
        IN /\ last'.conn = carrier[u]
           /\ carrier[u] # NoTx => (table' = table /\ carrier[u] = RootTx(u) /\ Live(carrier[u]))
           /\ carrier[u] = NoTx <=> frames[u] = <<>>
           /\ \A t \in TxIds : t # carrier[u] => (txWrites'[t] = txWrites[t] /\ txs'[t] = txs[t])
    ]_vars

\* Inside a nested call an Update lost against a write another unit made on the
\* pool: its UPDATE and its probe ran on the unit's transaction.
C12_Witness ==
  /\ last.op = "Update" /\ last.phase = "done" /\ last.err = ErrOptimisticLock
  /\ last.conn # NoTx
  /\ last.conn = RootTx(last.unit)
  /\ Depth(last.unit) = 2
  /\ table[last.id].version = 2

\* C13: units that run ExecuteInTransaction at the same time hold different
\* transactions, each the one its own outermost call began; a repository call
\* of a unit runs on no other unit's transaction, and a transaction is
\* committed or rolled back only in a step of the unit that began it.
C13_TransactionsNotShared ==
  [][ /\ \A u, v \in Units :
           (u # v /\ carrier[u] # NoTx) => (carrier[u] # carrier[v] /\ carrier[u] \in TxsOf(u))
      /\ \A u \in Units : \A d \in 1..Depth(u) :
           frames[u][d].owner # NoTx => frames[u][d].owner \in TxsOf(u)
      /\ RepoStep
           => /\ last'.conn # NoTx => last'.conn \in TxsOf(last'.unit)
              /\ \A v \in Units : v # last'.unit
                   => \A t \in TxsOf(v) : txWrites'[t] = txWrites[t] /\ txs'[t] = txs[t]
      /\ \A u \in Units : \A t \in TxsOf(u) :
           (Live(t) /\ ~Live(t)')
             => /\ Depth(u)' < Depth(u)
                /\ \A v \in Units : v # u => (frames'[v] = frames[v] /\ carrier'[v] = carrier[v])
    ]_vars

\* Two units are inside their transactions at once, each with a write of its
\* own in its own transaction.
C13_Witness ==
  \E u, v \in Units :
    /\ u # v
    /\ Live(RootTx(u)) /\ Live(RootTx(v))
    /\ carrier[u] = RootTx(u) /\ carrier[v] = RootTx(v)
    /\ \E e \in effects[u] : e.tx = RootTx(u)
    /\ \E e \in effects[v] : e.tx = RootTx(v)

\* C14: when the carrier was cancelled while fn ran and fn returned nil or an
\* error that matches the cancellation, the transaction has been rolled back
\* (by a call of Rollback, or by database/sql on the cancellation) when the
\* outermost call returns, and the error returned matches context.Canceled.
C14_CancellationRollsBackAndPropagates ==
  \A u \in Units :
    (/\ cancelled[u]
     /\ outcome[u].state = "returned"
     /\ outcome[u].fn = Nil \/ ErrorsIs(outcome[u].fn, CtxCanceled))
      => /\ txs[RootTx(u)].rollbacks = 1 \/ txs[RootTx(u)].status = "cancelled"
         /\ ErrorsIs(outcome[u].err, CtxCanceled)

\* The sentinel kinds, and those a kind check (errors.Is) finds in an error.
Kinds == {ErrNotFound, ErrDuplicateKey, ErrForeignKeyViolation, ErrOptimisticLock,
          ErrInvalidInput, ErrConnectionFailed, ErrTransactionFailed}
KindsOf(err) == {k \in Kinds : ErrorsIs(err, k)}

\* The rule of the translator an error falls under: 1 unique violation, 2
\* foreign-key violation, 3 check violation, 4 no rows, 5 anything else.
RuleOf(err) ==
  IF err # Nil /\ err[1].type = "pq" /\ err[1].code = "23505" THEN 1
  ELSE IF err # Nil /\ err[1].type = "pq" /\ err[1].code = "23503" THEN 2
  ELSE IF err # Nil /\ err[1].type = "pq" /\ err[1].code = "23514" THEN 3
  ELSE IF err = SqlErrNoRows THEN 4
  ELSE 5
KindOfRule(r) ==
  IF r = 1 THEN ErrDuplicateKey
  ELSE IF r = 2 THEN ErrForeignKeyViolation
  ELSE IF r = 3 THEN ErrInvalidInput
  ELSE ErrNotFound

\* C15: for an error under one of the rules 1 to 4, the result of handleError
\* is of exactly the one kind of that rule, and it is a DatabaseError that
\* carries the operation, the table users and, for a vendor error, its code.
C15_TranslatorKeepsKindAndContext ==
  (trIn.op # "" /\ RuleOf(trIn.err) \in 1..4)
    => /\ KindsOf(trOut) = {KindOfRule(RuleOf(trIn.err))}
       /\ trOut[1].type = "DatabaseError"
       /\ trOut[1].op = trIn.op
       /\ trOut[1].table = "users"
       /\ trIn.err[1].type = "pq" => trOut[1].code = trIn.err[1].code

\* C16 as stated: for an error under none of the rules 1 to 4 the result is a
\* generic DatabaseError around the cause, of which no kind check holds.
C16_GenericErrorHasNoKind ==
  (trIn.op # "" /\ trIn.err # Nil /\ RuleOf(trIn.err) = 5)
    => /\ trOut = <<Layer("DatabaseError", trIn.op, "users", "", "")>> \o trIn.err
       /\ KindsOf(trOut) = {}

\* C16 amended: for an error under none of the rules 1 to 4 the result is a
\* generic DatabaseError, with the operation, the table and no code, around the
\* cause, and a kind check holds of it exactly if it holds of the cause: of none
\* for a cause that carries no sentinel.
C16_GenericErrorKeepsKindOfCause ==
  (trIn.op # "" /\ trIn.err # Nil /\ RuleOf(trIn.err) = 5)
    => /\ trOut = <<Layer("DatabaseError", trIn.op, "users", "", "")>> \o trIn.err
       /\ KindsOf(trOut) = KindsOf(trIn.err)
       /\ (\A i \in DOMAIN trIn.err : trIn.err[i].type # "sentinel") => KindsOf(trOut) = {}

\* The translator has wrapped a vendor error of no rule (an aborted
\* transaction): the result is of no kind.
C16_Witness ==
  /\ trIn.op = "Update"
  /\ trIn.err = PqError("25P02", "")
  /\ trOut[1].type = "DatabaseError"
  /\ KindsOf(trOut) = {}

\* C17: every error a repository call returns is a DatabaseError that names
\* the operation called and the table users, and is of a sentinel kind.
C17_ErrorsCarryKindAndContext ==
  (last.phase = "done" /\ last.err # Nil)
    => /\ last.err[1].type = "DatabaseError"
       /\ last.err[1].op = last.op
       /\ last.err[1].table = "users"
       /\ KindsOf(last.err) # {}

\* C18: a Delete whose connection shows a row under the id returns nil, and
\* then Exists on that connection answers false and GetByID fails with
\* NotFound; a Delete whose connection shows no row fails with NotFound and
\* changes neither the stored table nor any transaction's writes.
C18_DeleteRemovesOrNotFound ==
  [][ \A c \in TxIds \cup {NoTx}, id \in Ids :
        (nops' # nops /\ last'.op = "Delete" /\ last'.conn = c /\ last'.id = id /\ ~Aborted(c))
          => IF Visible(c, id).present
               THEN /\ last'.err = Nil
                    /\ ~Visible(c, id)'.present
                    /\ Exists(c, id)' = [exists |-> FALSE, err |-> Nil]
                    /\ IsNotFoundError(GetByIDError(c, id)')
               ELSE /\ IsNotFoundError(last'.err)
                    /\ table' = table
                    /\ txWrites' = txWrites
    ]_vars

\* Inside a transaction a Delete has removed a stored row and a second Delete
\* of the same id has then failed with NotFound.
C18_Witness ==
  /\ last.op = "Delete"
  /\ IsNotFoundError(last.err)
  /\ last.conn # NoTx
  /\ table[last.id].present
  /\ txWrites[last.conn][last.id] = NoRow

\* The step is a call of Steps(n), through the runner or the manager.
StepsCall(n) ==
  /\ mlast'.op \in {"Steps", "MigrateSteps"}
  /\ mlast'.arg = n
  /\ <<mig, ran, mlast>>' # <<mig, ran, mlast>>

\* The source holds the versions 1..n without a gap.
Contiguous == \E n \in 1..MaxMigration : source = 1..n

\* C19: with a source of contiguous versions, when Version reports clean@v,
\* Steps(+1) runs the forward script of v+1 and nothing else, and Version
\* then reports clean@v+1 if the script succeeded and dirty@v+1 if it failed;
\* Steps(-1) runs the reverse script of v and nothing else, and Version then
\* reports clean@v-1 or dirty@v-1.
C19_SingleStepOutcomes ==
  [][ \A v \in 0..MaxMigration :
        (Contiguous /\ Version(mig) = [version |-> v, dirty |-> FALSE])
          => /\ (StepsCall(1) /\ v + 1 \in Migrations)
                  => \E ok \in BOOLEAN :
                       /\ ran' = <<[version |-> v + 1, dir |-> "up", ok |-> ok]>>
                       /\ Version(mig)' = [version |-> v + 1, dirty |-> ~ok]
             /\ (StepsCall(-1) /\ v \in Migrations)
                  => \E ok \in BOOLEAN :
                       /\ ran' = <<[version |-> v, dir |-> "down", ok |-> ok]>>
                       /\ Version(mig)' = [version |-> v - 1, dirty |-> ~ok]
    ]_vars

\* The calls that run migration scripts, and the calls of Force.
SteppingCalls == {"Up", "Down", "Steps", "MigrateUp", "MigrateDown", "MigrateSteps", "MigrateTo"}
ForceCalls == {"Force", "Manager.Force"}

\* C20: while the stored migration state is dirty, a call of Up, Down, Steps,
\* MigrateUp, MigrateDown, MigrateSteps or MigrateTo executes no script and
\* leaves the version and the dirty flag as they were; a step that leaves a
\* dirty state is a call of Force(v), which runs no script and stores clean@v.
C20_DirtyBlocksSteps ==
  [][ mig.dirty
        => /\ mlast'.op \in SteppingCalls => (mig' = mig /\ ran' = <<>>)
           /\ ~mig'.dirty => /\ mlast'.op \in ForceCalls
                             /\ ran' = <<>>
                             /\ mig'.version = mlast'.arg
    ]_vars

\* MigrateTo has been refused with ErrDirty in a dirty state, and has run no
\* script.
C20_Witness ==
  /\ mig.dirty
  /\ mig.version \in Migrations
  /\ mlast.op = "MigrateTo"
  /\ mlast.arg # mig.version
  /\ ErrorsIs(mlast.err, ErrDirty)
  /\ ran = <<>>

\* The latest two calls are Steps(n) and then Steps(-n), the first from a
\* clean state, and no script of either has failed.
StepsPair ==
  /\ mprev.steps
  /\ mlast.op \in {"Steps", "MigrateSteps"}
  /\ mlast.arg = -mprev.arg
  /\ ~mprev.from.dirty
  /\ mprev.ranOk
  /\ \A i \in DOMAIN ran : ran[i].ok

\* C21 as stated: from any clean state and for every n, after Steps(n) and
\* then Steps(-n) with no script failing, the version Version reports is the
\* one before the pair and the state is clean.
C21_StepsRoundTripEveryN ==
  StepsPair => (Version(mig) = Version(mprev.from) /\ ~mig.dirty)

\* C21 as amended: the same, for the pairs whose Steps(n) returned nil.
C21_StepsRoundTripWhenApplied ==
  (StepsPair /\ mprev.ok)
    => (Version(mig) = Version(mprev.from) /\ ~mig.dirty /\ mlast.err = Nil)

\* Steps(2) has applied two versions and Steps(-2) has reverted them.
C21_Witness ==
  /\ StepsPair
  /\ mprev.ok
  /\ mprev.arg = 2
  /\ Len(ran) = 2
  /\ mprev.from.version \in Migrations

\* C22: after Force(v) for a version v >= 0, called on the runner or the
\* manager from a clean or a dirty state, the stored state is clean@v, the
\* call has returned nil and no script has been executed; Force(NilVersion)
\* stores the state of no migration applied in the same way.
C22_ForceStoresCleanVersion ==
  (mlast.op \in ForceCalls /\ mlast.arg >= NilVersion)
    => /\ mig = (IF mlast.arg = NilVersion THEN NoMig
                 ELSE [version |-> mlast.arg, dirty |-> FALSE])
       /\ Version(mig) = [version |-> IF mlast.arg = NilVersion THEN 0 ELSE mlast.arg,
                          dirty |-> FALSE]
       /\ ran = <<>>
       /\ mlast.err = Nil

\* Force(v) has been called in a dirty state of another version.
C22_Witness ==
  /\ mlast.op \in ForceCalls
  /\ mlast.from.dirty
  /\ mlast.arg \in Migrations
  /\ mlast.arg # mlast.from.version
  /\ mig = [version |-> mlast.arg, dirty |-> FALSE]

\* The highest version of the source.
LatestVersion == CHOOSE x \in source : \A y \in source : y <= x

\* C23: for every source and every target from 0 to its latest version,
\* MigrateTo(target) calls Steps not at all and changes nothing when Version
\* reports the target, calls Steps(target - current) once otherwise, and
\* whenever it returns nil Version reports the target.
C23_MigrateToReachesTarget ==
  (mlast.op = "MigrateTo" /\ mlast.arg <= LatestVersion)
    => LET currentVersion == Version(mlast.from).version
       IN /\ mlast.arg = currentVersion
               => (mlast.steps = <<>> /\ mig = mlast.from /\ ran = <<>>)
          /\ mlast.arg # currentVersion
               => mlast.steps = <<mlast.arg - currentVersion>>
          /\ mlast.err = Nil => Version(mig).version = mlast.arg

\* The versions of which the directory holds a file named as an up script, or
\* as a down script ("{version}_{name}.up.sql", "{version}_{name}.down.sql").
VersionsWith(kind) ==
  {v \in FileVersions :
     \E f \in dir : /\ ~f.isDir /\ f.sql /\ f.parts >= 2 /\ f.number
                    /\ f.version = v /\ f.kind = kind}

\* C26: the list ListMigrations returns holds exactly the versions that have
\* both an up file and a down file in the directory, each once and in
\* strictly ascending order.
C26_ListIsSortedPairs ==
  mgr.op = "ListMigrations"
    => /\ {mgr.list[i].Version : i \in DOMAIN mgr.list}
            = VersionsWith("up") \cap VersionsWith("down")
       /\ \A i, j \in DOMAIN mgr.list : i < j => mgr.list[i].Version < mgr.list[j].Version

\* ListMigrations has listed two versions of a directory that also holds a
\* version with one script only and entries that are no scripts.
C26_Witness ==
  /\ mgr.op = "ListMigrations"
  /\ Len(mgr.list) = 2
  /\ VersionsWith("up") # VersionsWith("down")
  /\ OddEntries \subseteq dir

\* The versions of the migration files in the directory.
FileVersionsPresent == VersionsWith("up") \cup VersionsWith("down")

\* C24: ValidateMigrations returns an error whenever some version from 1 to
\* the highest version of a migration file in the directory lacks its up
\* script or its down script.
C24_ValidateFailsOnMissingScript ==
  ( /\ mgr.op = "ValidateMigrations"
    /\ \E v \in FileVersions, max \in FileVersionsPresent :
         v <= max /\ (v \notin VersionsWith("up") \/ v \notin VersionsWith("down")) )
    => mgr.err # Nil

\* A blank line, a line starting with "--", and a line whose first character
\* that is no space starts a "--".
BlankLine(line) == \A k \in DOMAIN line : line[k] = " "
DashLine(line) == Len(line) >= 2 /\ line[1] = "-" /\ line[2] = "-"
IndentedDashLine(line) ==
  \E k \in DOMAIN line :
    /\ \A h \in 1..(k - 1) : line[h] = " "
    /\ k < Len(line) /\ line[k] = "-" /\ line[k + 1] = "-"

\* The scripts of the listed migrations.
ListedScripts == UNION {{mgr.list[i].UpFile, mgr.list[i].DownFile} : i \in DOMAIN mgr.list}

\* C25 as stated: ValidateMigrations returns an error when a script of a
\* listed migration has only blank lines and lines starting with "--", and no
\* error for its content when every script has a line of another kind.
C25_CommentOnlyScriptsFail ==
  mgr.op = "ValidateMigrations"
    => LET NotesOnly(script) ==
             \A i \in DOMAIN script : BlankLine(script[i]) \/ DashLine(script[i])
       IN IF \E script \in ListedScripts : NotesOnly(script)
            THEN mgr.err # Nil
            ELSE mgr.err = Nil

\* C25 as amended: the same, with a line counted as a comment when "--" are
\* its first characters after leading white space.
C25_TrimmedCommentOnlyScriptsFail ==
  mgr.op = "ValidateMigrations"
    => LET NotesOnly(script) ==
             \A i \in DOMAIN script : BlankLine(script[i]) \/ IndentedDashLine(script[i])
       IN IF \E script \in ListedScripts : NotesOnly(script)
            THEN mgr.err # Nil
            ELSE mgr.err = Nil

\* ValidateMigrations has refused a script whose only line is an indented
\* comment.
C25_Witness ==
  /\ mgr.op = "ValidateMigrations"
  /\ mgr.err # Nil
  /\ << <<" ", "-", "-">> >> \in ListedScripts
  /\ \A script \in ListedScripts : script # << <<" ", "-", "-">> >> => containsSQL(script)

\* The members of a sequence.
Range(q) == {q[i] : i \in DOMAIN q}

\* C27: in the status GetStatus returns, built of the version and dirty flag
\* Version reports, the applied migrations are the listed ones of a version
\* up to current_version and the pending ones the others, the two counts sum
\* to the total, and IsUpToDate holds exactly if current_version is the
\* latest listed version and the state is not dirty.
C27_StatusPartitionsMigrations ==
  mgr.op = "GetStatus"
    => LET st == mgr.status
           listed == {InfoOf(dir, v) : v \in VersionsWith("up") \cap VersionsWith("down")}
           latest == IF listed = {} THEN 0
                     ELSE CHOOSE v \in {m.Version : m \in listed} : \A m \in listed : m.Version <= v
       IN /\ st.CurrentVersion = Version(mig).version
          /\ st.IsDirty = Version(mig).dirty
          /\ st.LatestVersion = latest
          /\ Range(st.AppliedMigrations) = {m \in listed : m.Version <= st.CurrentVersion}
          /\ Range(st.PendingMigrations) = {m \in listed : m.Version > st.CurrentVersion}
          /\ st.AppliedCount = Cardinality({m \in listed : m.Version <= st.CurrentVersion})
          /\ st.PendingCount = Cardinality({m \in listed : m.Version > st.CurrentVersion})
          /\ st.TotalMigrations = Cardinality(listed)
          /\ st.AppliedCount + st.PendingCount = st.TotalMigrations
          /\ mgr.upToDate <=> (st.CurrentVersion = latest /\ ~Version(mig).dirty)

\* GetStatus has reported applied and pending migrations in a dirty state at
\* the version of a listed migration.
C27_Witness ==
  /\ mgr.op = "GetStatus"
  /\ mgr.status.IsDirty
  /\ mgr.status.AppliedCount >= 1
  /\ mgr.status.PendingCount >= 1
  /\ \E i \in DOMAIN mgr.list : mgr.list[i].Version = mgr.status.CurrentVersion

\* Migrations are pending: the stored state is not the clean state of the
\* latest version of the source.
MigrationsPending == mig # [version |-> LatestVersion, dirty |-> FALSE]

\* C28: the application listens for requests, and serves repository
\* operations, only when no migration is pending.
C28_NoTrafficWhilePending ==
  (boot = "listening" \/ nops > 0) => ~MigrationsPending

\* C29: WaitForConnection ends, having made at most maxRetries checks and at
\* most maxRetries - 1 waits (none for maxRetries below 1); no check follows a
\* successful one, and it returns nil exactly if a check succeeded.
C29_WaitEndsWithinRetries ==
  /\ <>(wfc.pc = "done")
  /\ [](/\ wfc.checks <= wfc.maxRetries
        /\ wfc.waits <= (IF wfc.maxRetries >= 1 THEN wfc.maxRetries - 1 ELSE 0)
        /\ wfc.succeeded => wfc.pc = "done"
        /\ wfc.pc = "done" => (wfc.result = "nil" <=> wfc.succeeded))

\* The call has ended without success after all its checks and waits.
C29_Witness ==
  /\ wfc.pc = "done"
  /\ wfc.maxRetries = MaxRetries
  /\ wfc.checks = wfc.maxRetries
  /\ wfc.waits = wfc.maxRetries - 1
  /\ wfc.result = "not available"

\* The number a sequence of digits stands for.
RECURSIVE ParseInt(_)
ParseInt(digits) ==
  IF digits = <<>> THEN 0
  ELSE 10 * ParseInt(SubSeq(digits, 1, Len(digits) - 1))
       + (CHOOSE d \in 0..9 : DigitChars[d + 1] = digits[Len(digits)])

\* C30: after Limit or Offset the args are the args before with the value
\* appended, and the query is the query before with one placeholder whose
\* number is the 1-based place of that value in the args; after Build the
\* builder is as before and the query and args were returned.
C30_PlaceholderIsArgPosition ==
  /\ qlast.op \in {"Limit", "Offset"} =>
       /\ qb.args = Append(qlast.before.args, qlast.arg)
       /\ Len(qb.query) = Len(qlast.before.query) + 1
       /\ SubSeq(qb.query, 1, Len(qlast.before.query)) = qlast.before.query
       /\ qb.query[Len(qb.query)].clause = (IF qlast.op = "Limit" THEN " LIMIT $" ELSE " OFFSET $")
       /\ LET index == ParseInt(qb.query[Len(qb.query)].text)
          IN /\ index \in 1..Len(qb.args)
             /\ index = Len(qb.args)
             /\ qb.args[index] = qlast.arg
  /\ qlast.op = "Build" =>
       /\ qb = qlast.before
       /\ qlast.ret = <<qb.query, qb.args>>

\* Limit or Offset has put a placeholder of two digits after Where, And and Or.
C30_Witness ==
  /\ qlast.op \in {"Limit", "Offset"}
  /\ Len(qb.query[Len(qb.query)].text) = 2
  /\ \E i \in 1..Len(qb.query) : qb.query[i].clause = " WHERE "

\* The text holds the part, letter case aside.
Contains(text, part) ==
  \E i \in 0..(Len(text) - Len(part)) :
    \A k \in 1..Len(part) : Lower(text[i + k]) = Lower(part[k])

\* What the filter asks of a row: status equal, the three texts contained, each
\* only if set.
Wanted(row, filter) ==
  /\ filter.Status # "" => row.status = filter.Status
  /\ filter.Email # <<>> => Contains(row.email, filter.Email)
  /\ filter.FirstName # <<>> => Contains(row.first_name, filter.FirstName)
  /\ filter.LastName # <<>> => Contains(row.last_name, filter.LastName)

\* The fields of the filter that are set.
FieldsSet(filter) ==
  {c \in {"status", "email", "first_name", "last_name"} :
     \/ c = "status" /\ filter.Status # ""
     \/ c = "email" /\ filter.Email # <<>>
     \/ c = "first_name" /\ filter.FirstName # <<>>
     \/ c = "last_name" /\ filter.LastName # <<>>}

\* C31: the WHERE clause has one condition for each field of the filter that is
\* set and no other, and a row satisfies it exactly if its status equals the
\* filter's and its e-mail, first name and last name contain the filter's
\* texts, letter case aside.
C31_FilterIsContainment ==
  pg.pc = "count" =>
    LET w == buildWhereClause(pg.filter)
    IN /\ Len(w.conditions) = Cardinality(FieldsSet(pg.filter))
       /\ {w.conditions[i].column : i \in 1..Len(w.conditions)} = FieldsSet(pg.filter)
       /\ \A row \in users :
            Satisfies(row, buildCountQuery(pg.filter)) <=> Wanted(row, pg.filter)

\* C32: every page of List holds rows that satisfy the predicate of Count, in
\* descending order of created_at, and once the caller has read all pages of
\* an unchanged table the rows listed are as many as Count returns.
C32_CountEqualsRowsListed ==
  /\ \A i \in 1..Len(pg.rows) :
       /\ pg.rows[i] \in Selected(buildCountQuery(pg.filter))
       /\ \A j \in 1..Len(pg.rows) : i < j => pg.rows[i].created_at >= pg.rows[j].created_at
  /\ Len(pg.rows) <= pg.limit
  /\ pg.pc = "done" => pg.listed = pg.count

\* One row of two matches a filter that is set; the caller read a full page
\* and an empty one, and counted.
C32_Witness ==
  /\ pg.pc = "done"
  /\ pg.filter.Email # <<>>
  /\ pg.limit = 1
  /\ pg.offset = 2
  /\ pg.count = 1
  /\ \E row \in users : row \notin Selected(buildCountQuery(pg.filter))

\* C33: in every successful Update the version the statement sets, which is
\* the entity's, is the version the BEFORE UPDATE trigger computes from the old
\* row, and the row the connection then shows has the old version plus one.
C33_SetVersionIsTriggerVersion ==
  [][ \A c \in TxIds \cup {NoTx}, id \in Ids :
        (/\ nops' # nops
         /\ last'.op = "Update" /\ last'.phase = "done" /\ last'.err = Nil
         /\ last'.conn = c /\ last'.id = id)
          => LET old == Visible(c, id)
                 set == [old EXCEPT !.version = last'.ver]
             IN /\ old.present
                /\ update_updated_at_column(old, set).version = set.version
                /\ Visible(c, id)'.present
                /\ Visible(c, id)'.version = old.version + 1
                /\ Visible(c, id)'.version = last'.ver
    ]_vars

\* An Update inside a transaction has succeeded on a row another Update had
\* advanced before.
C33_Witness ==
  /\ last.op = "Update" /\ last.phase = "done" /\ last.err = Nil
  /\ last.conn # NoTx
  /\ last.ver >= 3
  /\ Visible(last.conn, last.id).version = last.ver

Translations(err) == Cardinality({i \in DOMAIN err : err[i].type = "DatabaseError"})

\* C35: no error a repository call returns has been through handleError more
\* than once, the error of the Exists probe of Update included, and
\* translating an error again leaves its sentinel kinds as they were.
C35_TranslatedOnce ==
  /\ Translations(last.err) <= 1
  /\ \A operation \in Operations :
       KindsOf(handleError(operation, last.err)) = KindsOf(last.err)

\* The outermost call of unit u returns in this step, its fn having returned
\* nil after a nested call returned a failure.
OuterNilAfterInnerFailure(u) ==
  /\ outcome[u].state = "none"
  /\ outcome'[u].state = "returned"
  /\ outcome'[u].via # "begin-failed"
  /\ outcome'[u].fn = Nil
  /\ innerFailed[u]

\* The return of a nested call of unit u leaves every transaction and the
\* stored table as they are.
NestedLeavesTransaction(u) ==
  (Depth(u) >= 2 /\ frames'[u] = SubSeq(frames[u], 1, Depth(u) - 1))
    => (txs' = txs /\ txWrites' = txWrites /\ table' = table)

\* C36 as stated: a nested call resolves nothing, and when the outermost fn
\* returns nil after a nested call returned a failure, with the driver working
\* and the carrier not cancelled, the transaction is committed and the writes
\* of the nested call are in the stored table.
C36_InnerFailureStillCommits ==
  [][ \A u \in Units :
        /\ NestedLeavesTransaction(u)
        /\ (OuterNilAfterInnerFailure(u) /\ faults' = faults /\ ~cancelled[u])
             => /\ txs'[RootTx(u)].status = "committed"
                /\ \A e \in effects[u] : table'[e.id] = txWrites[e.tx][e.id]
    ]_vars

\* C36 amended: a nested call resolves nothing; when the outermost fn returns
\* nil after a nested call returned a failure, Commit is called and Rollback is
\* not, and the writes of the nested call are in the stored table if the call
\* returns nil; if a failed statement had aborted the transaction the commit
\* fails and the stored table stays as it was.
C36_InnerFailureStillCallsCommit ==
  [][ \A u \in Units :
        /\ NestedLeavesTransaction(u)
        /\ OuterNilAfterInnerFailure(u)
             => /\ txs'[RootTx(u)].commits = 1
                /\ txs'[RootTx(u)].rollbacks = 0
                /\ outcome'[u].err = Nil
                     => /\ txs'[RootTx(u)].status = "committed"
                        /\ \A e \in effects[u] : table'[e.id] = txWrites[e.tx][e.id]
                /\ txs[RootTx(u)].status = "failed"
                     => (outcome'[u].err # Nil /\ table' = table)
    ]_vars

\* An outermost call has returned nil after a nested call, which had written a
\* row, returned a failure; the row is stored.
C36_Witness ==
  \E u \in Units :
    /\ outcome[u].state = "returned"
    /\ outcome[u].err = Nil
    /\ innerFailed[u]
    /\ txs[RootTx(u)].status = "committed"
    /\ \E e \in effects[u] : e.depth = 2 /\ table[e.id] = txWrites[e.tx][e.id]

\* C37: a call of ExecuteInTransactionWithOptions that finds a token begins no
\* transaction, whatever options it was given: its fn runs in the transaction
\* of the enclosing call, which has the options of the outermost call, and a
\* statement is refused or not by the read-only setting of that transaction,
\* not by the options of the nested call.
C37_NestedOptionsIgnored ==
  /\ [](/\ \A d \in 1..Len(otx.frames) :
             /\ otx.frames[d].tx = otx.frames[1].tx
             /\ otx.frames[d].owner <=> d = 1
             /\ otx.begun[otx.frames[d].tx].opts = otx.frames[1].opts
        /\ otx.stmt.tx # 0 =>
             (otx.stmt.err = PqError("25006", "")
                <=> /\ otx.stmt.write
                    /\ otx.begun[otx.stmt.tx].opts.ReadOnly
                    /\ otx.stmt.err # PqAborted))
  /\ [][ (otx.frames # <<>> /\ Len(otx'.frames) = Len(otx.frames) + 1)
           => otx'.begun = otx.begun ]_vars

\* A nested call given Serializable runs in the read-only READ COMMITTED
\* transaction of the outermost call, where its write was refused.
C37_Witness ==
  /\ Len(otx.frames) = 2
  /\ otx.frames[2].opts = Serializable
  /\ otx.frames[1].opts = ReadOnly
  /\ otx.stmt.write
  /\ otx.stmt.err = PqError("25006", "")
  /\ Len(otx.begun) = 1

\* The versions of the source that a call of op with argument n would apply
\* or revert from row m.
PendingVersions(m, op, n) ==
  IF op = "Up" \/ (op = "Steps" /\ n > 0) THEN {x \in source : x > m.version}
  ELSE IF op = "Down" \/ (op = "Steps" /\ n < 0) THEN {x \in source : x <= m.version}
  ELSE {}

\* The row is clean and holds no version or a version of the source.
CleanAtSource(m) == ~m.dirty /\ m.version \in source \cup {NilVersion}

\* C38: from a clean row, a call of Up, Down or Steps(n) that finds nothing to
\* apply or revert returns nil, runs no script and leaves the version and the
\* dirty flag as they were; and a call of Up that returns nil leaves the row
\* clean at the latest version of the source, where the next Up has nothing to
\* apply.
C38_NothingToDoSucceeds ==
  [][ /\ ( /\ mlast'.op \in {"Up", "Down", "Steps"}
           /\ CleanAtSource(mig)
           /\ PendingVersions(mig, mlast'.op, mlast'.arg) = {} )
         => (mlast'.err = Nil /\ mig' = mig /\ ran' = <<>>)
      /\ (mlast'.op = "Up" /\ mlast'.err = Nil)
         => (mig' = [version |-> LatestVersion, dirty |-> FALSE]
             /\ PendingVersions(mig', "Up", 0) = {}) ]_vars

NextVersionOf(d) ==
  LET listed == {m.Version : m \in Listed(ReadDir(d))}
  IN IF listed = {} THEN 1 ELSE (CHOOSE x \in listed : \A y \in listed : y <= x) + 1

\* C40: a call of CreateMigration(name) either returns nil, and then the up
\* and the down file named after the version following the highest listed one
\* did not exist before and hold the new scripts after, or returns an error,
\* and then neither of the two is there that was not there before; in both
\* cases every other file, and every file that existed, is as it was.
C40_CreatesBothOrNeither ==
  [][ cm'.calls > cm.calls =>
        LET version == NextVersionOf(cdir)
            created == {FileName(VersionStr(version), CleanName(cm'.name), k) : k \in {"up", "down"}}
        IN IF cm'.err = Nil
             THEN /\ created \subseteq Paths
                  /\ cm'.info.Version = version
                  /\ \A p \in created : ~cdir[p].exists /\ cdir'[p].exists /\ cdir'[p].whole
                  /\ \A p \in Paths \ created : cdir'[p] = cdir[p]
             ELSE cdir' = cdir ]_vars

=============================================================================
